---- MODULE Spec2Model ----
(***************************************************************************)
(* Model of the grocery assistant.  Four parts share the module:           *)
(*   - the tool layer (src/app/tools.py): execute_tool and its handlers;   *)
(*   - the message pipeline (src/app/slack_handler.py,                     *)
(*     src/app/action_parser.py): handle_message down to execute_action;   *)
(*   - the control loop around the tools, of which the sources hold the    *)
(*     settings only (src/app/config.py);                                  *)
(*   - the retailer client (src/app/kroger_service.py): the user's tokens  *)
(*     and the product search.                                             *)
(* All of them work on SQLAlchemy sessions created by SessionLocal         *)
(* (src/app/database.py), which is configured with autoflush=False.        *)
(*                                                                         *)
(* The tool layer's session is modelled in two layers:                     *)
(*   db   the rows the transaction's SQL statements see (everything        *)
(*        flushed so far, committed or not);                               *)
(*   mem  the objects of the session: the flushed rows with their          *)
(*        in-memory attribute values, plus the objects added with          *)
(*        db_session.add() that no flush has written yet;                  *)
(*   del  the objects passed to db_session.delete() that no flush has      *)
(*        removed yet.                                                     *)
(* Because autoflush is off, a query filters on db and never sees a        *)
(* pending add, delete or attribute change; the objects it returns carry   *)
(* the attribute values of mem.                                            *)
(*                                                                         *)
(* Strings are sequences of one-character strings, so that normalisation,  *)
(* stripping and case-insensitive matching are computed as the code        *)
(* computes them.                                                          *)
(*                                                                         *)
(* The Ingredient columns last_known_price, aliases and purchase_source    *)
(* are the ones migrations 003 and 004 add to the ingredients table and    *)
(* tools.py reads and writes; the ORM class in models/ingredient.py does   *)
(* not redeclare them.  Columns no modelled handler branches on (unit,     *)
(* added_by, category, instructions, created_at ...) are left out.         *)
(***************************************************************************)
EXTENDS Integers, Sequences, FiniteSets, TLC

VARIABLES
    db,         \* rows visible to SQL inside the current transaction
    mem,        \* session objects: flushed rows as held in memory + pending adds
    del,        \* pending deletes, per table
    committed,  \* rows as of the last commit (what a rollback returns to)
    result,     \* what the last execute_tool call returned
    last,       \* the last call: tool name, parameters, and what the retailer client met
    cart,       \* submissions made to the retailer's cart endpoint
    database,   \* the message pipeline's committed rows: lists and conversations
    invocation, \* per worker, where its process_message stands and its session
    inbox,      \* the message events delivered so far
    said,       \* the replies posted with say(), in order
    loop,       \* the control loop of one message: position, turns, model calls
    kroger_service  \* the retailer client: token globals, token row, clock

vars ==
    <<db, mem, del, committed, result, last, cart, database, invocation, inbox, said, loop,
      kroger_service>>

-----------------------------------------------------------------------------
(* Bounds of the model *)

MaxLists == 2
MaxItems == 2
MaxEvents == 4
MaxShortLog == 3
MaxPantry == 2
MaxRecipes == 1
MaxMeals == 1
MaxNotes == 2
MaxCart == 1
MaxMessages == 2
MaxActions == 3
MaxTime == 4

-----------------------------------------------------------------------------
(* Python values *)

NoneInt == 0
NoneStr == "None"
Now == "utcnow"

Max(S) == IF S = {} THEN 0 ELSE CHOOSE x \in S : \A y \in S : y <= x
Min(S) == CHOOSE x \in S : \A y \in S : x <= y

(* Strings *)

Upper == {"M", "I", "L", "K", "E", "G", "O"}
Lower == {"m", "i", "l", "k", "e", "g", "o"}
Punct == {"!", "-"}
Space == {" "}

LowerChar(c) ==
    CASE c = "M" -> "m" [] c = "I" -> "i" [] c = "L" -> "l" [] c = "K" -> "k"
      [] c = "E" -> "e" [] c = "G" -> "g" [] c = "O" -> "o"
      [] OTHER -> c

\* str.lower()
StrLower(s) == [i \in 1..Len(s) |-> LowerChar(s[i])]

IsSpace(c) == c \in Space
IsWord(c) == c \in Upper \cup Lower

\* re.sub(r"[^\w\s]", "", name)
StripPunct(s) == SelectSeq(s, LAMBDA c : IsWord(c) \/ IsSpace(c))

\* str.strip()
RECURSIVE LStrip(_)
LStrip(s) == IF s # <<>> /\ IsSpace(Head(s)) THEN LStrip(Tail(s)) ELSE s
RECURSIVE RStrip(_)
RStrip(s) ==
    IF s # <<>> /\ IsSpace(s[Len(s)]) THEN RStrip(SubSeq(s, 1, Len(s) - 1)) ELSE s
Strip(s) == RStrip(LStrip(s))

\* re.sub(r"\s+", " ", name)
RECURSIVE CollapseWs(_)
CollapseWs(s) ==
    IF s = <<>> THEN <<>>
    ELSE IF IsSpace(Head(s))
         THEN <<" ">> \o CollapseWs(LStrip(s))
         ELSE <<Head(s)>> \o CollapseWs(Tail(s))

\* the variant that compares raw names
normalize_ingredient_name_identity(name) == name

normalize_ingredient_name(name) == Strip(CollapseWs(StripPunct(StrLower(name))))

normalize_recipe_name(name) == Strip(CollapseWs(StripPunct(StrLower(name))))

\* Column.contains(x): LIKE '%' || x || '%'
Contains(s, sub) ==
    \E i \in 0..(Len(s) - Len(sub)) : SubSeq(s, i + 1, i + Len(sub)) = sub

\* Column.ilike(pattern) for a pattern without the wildcards % and _
ILike(value, pattern) == StrLower(value) = StrLower(pattern)

-----------------------------------------------------------------------------
(* The store: one function from primary key to row per table *)

EmptyStore ==
    [ lists       |-> <<>>,
      items       |-> <<>>,
      ingredients |-> <<>>,
      pantry      |-> <<>>,
      recipes     |-> <<>>,
      links       |-> <<>>,
      plans       |-> <<>>,
      notes       |-> <<>>,
      events      |-> <<>> ]

NoDeletes == [items |-> {}, pantry |-> {}]

\* a table with the row `row` stored under key `id`
Put(table, id, row) ==
    [k \in DOMAIN table \cup {id} |-> IF k = id THEN row ELSE table[k]]

\* a table without the rows whose keys are in `ids`
Without(table, ids) == [k \in DOMAIN table \ ids |-> table[k]]

\* the next value of a table's autoincrement key
NewId(s, t) == Max(DOMAIN s.db[t] \cup DOMAIN s.mem[t]) + 1

\* Session.add(obj) for a new row of table t
Add(s, t, id, row) == [s EXCEPT !.mem[t] = Put(@, id, row)]

\* attribute assignment on an object of the session
Set(s, t, id, row) == [s EXCEPT !.mem[t] = Put(@, id, row)]

\* Session.delete(obj)
Delete(s, t, id) == [s EXCEPT !.del[t] = @ \cup {id}]

\* Session.flush(): every pending insert, update and delete is written
Flush(s) ==
    LET m == [s.mem EXCEPT !.items = Without(@, s.del.items),
                           !.pantry = Without(@, s.del.pantry)]
    IN  [db |-> m, mem |-> m, del |-> NoDeletes]

\* what the tables hold once the pending work of the session is written
Logical(s) == Flush(s).db

-----------------------------------------------------------------------------
(* Helpers of tools.py.  A handler takes the session s = [db, mem, del] and *)
(* yields [s, r, raised]: the session it leaves, the dict it returns, and   *)
(* whether an exception left the handler instead.                           *)

\* Query.first() / Query.all(): rows come back in primary-key order
First(ids) == Min(ids)

RECURSIVE InOrder(_)
InOrder(ids) ==
    IF ids = {} THEN <<>> ELSE <<Min(ids)>> \o InOrder(ids \ {Min(ids)})

Returns(s, r) == [s |-> s, r |-> r, raised |-> FALSE]
Raises(s) == [s |-> s, r |-> [raised |-> TRUE], raised |-> TRUE]

_log_event(s, action_type) ==
    [s EXCEPT !.mem.events = Append(@, action_type)]

NewIngredient(name, normalized) ==
    [ name              |-> name,
      normalized_name   |-> normalized,
      kroger_product_id |-> NoneStr,
      preferred_brand   |-> NoneStr,
      preferred_size    |-> NoneStr,
      last_known_price  |-> NoneInt,
      purchase_source   |-> NoneStr,
      aliases           |-> <<>> ]

\* ids of the ingredients one of whose aliases normalizes to `normalized`;
\* the filter aliases IS NOT NULL is SQL (db), the alias list is read from
\* the object (mem)
AliasMatches(s, normalized) ==
    { i \in DOMAIN s.db.ingredients :
        /\ s.db.ingredients[i].aliases # <<>>
        /\ \E k \in 1..Len(s.mem.ingredients[i].aliases) :
              normalize_ingredient_name(s.mem.ingredients[i].aliases[k]) = normalized }

_get_or_create_ingredient(name, s) ==
    LET normalized == normalize_ingredient_name(name)
        exact == { i \in DOMAIN s.db.ingredients :
                     s.db.ingredients[i].normalized_name = normalized }
        alias == AliasMatches(s, normalized)
        id    == NewId(s, "ingredients")
    IN  IF exact # {} THEN [s |-> s, id |-> First(exact)]
        ELSE IF alias # {} THEN [s |-> s, id |-> First(alias)]
        ELSE [ s  |-> Flush(Add(s, "ingredients", id, NewIngredient(name, normalized))),
               id |-> id ]

ActiveLists(store) == { i \in DOMAIN store.lists : store.lists[i].status = "active" }

NewList == [status |-> "active", ordered_at |-> NoneStr]

\* the variant that never looks for the active list
_get_or_create_active_list_always_new(s) ==
    LET id == NewId(s, "lists")
    IN  [s |-> Flush(Add(s, "lists", id, NewList)), id |-> id]

_get_or_create_active_list(s) ==
    LET id == NewId(s, "lists")
    IN  IF ActiveLists(s.db) # {}
        THEN [s |-> s, id |-> First(ActiveLists(s.db))]
        ELSE [s |-> Flush(Add(s, "lists", id, NewList)), id |-> id]

\* ShoppingListItem rows of a list, as a query sees them
ItemsOf(store, list_id) ==
    { i \in DOMAIN store.items : store.items[i].shopping_list_id = list_id }

\* the items of a list whose ingredient's normalized name contains `normalized`
MatchingItems(s, list_id, normalized) ==
    { i \in ItemsOf(s.db, list_id) :
        Contains(s.db.ingredients[s.db.items[i].ingredient_id].normalized_name,
                 normalized) }

-----------------------------------------------------------------------------
(* Write tool handlers: the shopping list *)

execute_add_item(params, s) ==
    LET Item(l, g) == [ shopping_list_id |-> l.id,
                        ingredient_id    |-> g.id,
                        quantity         |-> params.quantity,
                        checked_off      |-> FALSE,
                        from_recipe_id   |-> NoneInt ]
        Done(s1, id, g, ing) ==
            Returns(_log_event(s1, "add_item"),
                    [ success           |-> TRUE,
                      item_id           |-> id,
                      ingredient_id     |-> g.id,
                      name              |-> ing.name,
                      preferred_brand   |-> ing.preferred_brand,
                      kroger_product_id |-> ing.kroger_product_id,
                      purchase_source   |-> ing.purchase_source,
                      needs_kroger_resolution |->
                          (ing.kroger_product_id = NoneStr /\ ing.purchase_source = NoneStr) ])
        AddTo(l, g) == Done(Flush(Add(l.s, "items", NewId(l.s, "items"), Item(l, g))),
                            NewId(l.s, "items"), g, l.s.mem.ingredients[g.id])
        WithIngredient(g) == AddTo(_get_or_create_active_list(g.s), g)
    IN  WithIngredient(_get_or_create_ingredient(Strip(params.name), s))

\* the variant that logs the lookups that found nothing too
execute_remove_item_logging_misses(params, s) ==
    LET normalized == normalize_ingredient_name(Strip(params.name))
        Remove(l, id) ==
            Returns(_log_event(Delete(l.s, "items", id), "remove_item"),
                    [ success |-> TRUE,
                      removed |-> l.s.mem.ingredients[l.s.mem.items[id].ingredient_id].name ])
        From(l, matches) ==
            IF matches = {}
            THEN Returns(_log_event(l.s, "remove_item"), [error |-> "not_found"])
            ELSE Remove(l, First(matches))
        WithList(l) == From(l, MatchingItems(l.s, l.id, normalized))
    IN  WithList(_get_or_create_active_list(s))

execute_remove_item(params, s) ==
    LET normalized == normalize_ingredient_name(Strip(params.name))
        Remove(l, id) ==
            Returns(_log_event(Delete(l.s, "items", id), "remove_item"),
                    [ success |-> TRUE,
                      removed |-> l.s.mem.ingredients[l.s.mem.items[id].ingredient_id].name ])
        From(l, matches) ==
            IF matches = {} THEN Returns(l.s, [error |-> "not_found"])
            ELSE Remove(l, First(matches))
        WithList(l) == From(l, MatchingItems(l.s, l.id, normalized))
    IN  WithList(_get_or_create_active_list(s))

execute_update_item(params, s) ==
    LET normalized == normalize_ingredient_name(Strip(params.item_name))
        Update(l, id, row) ==
            Returns(_log_event(Set(l.s, "items", id, row), "remove_item"),
                    [ success  |-> TRUE,
                      item_id  |-> id,
                      name     |-> l.s.mem.ingredients[row.ingredient_id].name,
                      quantity |-> row.quantity ])
        In(l, matches) ==
            IF matches = {} THEN Returns(l.s, [error |-> "not_found"])
            ELSE Update(l, First(matches),
                        [l.s.mem.items[First(matches)] EXCEPT !.quantity = params.quantity])
        WithList(l) == In(l, MatchingItems(l.s, l.id, normalized))
    IN  WithList(_get_or_create_active_list(s))

\* Query.delete() runs its DELETE at once and drops the matched objects from
\* the session; objects added but not yet flushed are not matched
execute_clear_list(params, s) ==
    LET Clear(l, rows) ==
            Returns(_log_event([ db  |-> [l.s.db EXCEPT !.items = Without(@, rows)],
                                 mem |-> [l.s.mem EXCEPT !.items = Without(@, rows)],
                                 del |-> [l.s.del EXCEPT !.items = @ \ rows] ],
                               "clear_list"),
                    [success |-> TRUE, items_removed |-> Cardinality(rows)])
        WithList(l) == Clear(l, ItemsOf(l.s.db, l.id))
    IN  WithList(_get_or_create_active_list(s))

execute_finalize_order(params, s) ==
    LET Archived(l) == [l.s.mem.lists[l.id] EXCEPT !.status = "ordered",
                                                   !.ordered_at = Now]
        Archive(l, item_count, id) ==
            Returns(_log_event(Flush(Add(Set(l.s, "lists", l.id, Archived(l)),
                                         "lists", id, NewList)),
                               "finalize_order"),
                    [success |-> TRUE, items_ordered |-> item_count, new_list_id |-> id])
        WithList(l, item_count) ==
            IF item_count = 0 THEN Returns(l.s, [error |-> "empty_list"])
            ELSE Archive(l, item_count, NewId(l.s, "lists"))
        Count(l) == WithList(l, Cardinality(ItemsOf(l.s.db, l.id)))
    IN  Count(_get_or_create_active_list(s))

execute_check_off_item(params, s) ==
    LET normalized == normalize_ingredient_name(Strip(params.name))
        Toggle(l, id, row) ==
            Returns(_log_event(Set(l.s, "items", id, row), "check_off_item"),
                    [ success     |-> TRUE,
                      name        |-> l.s.mem.ingredients[row.ingredient_id].name,
                      checked_off |-> row.checked_off ])
        In(l, matches) ==
            IF matches = {} THEN Returns(l.s, [error |-> "not_found"])
            ELSE Toggle(l, First(matches),
                        [l.s.mem.items[First(matches)] EXCEPT !.checked_off = ~@])
        WithList(l) == In(l, MatchingItems(l.s, l.id, normalized))
    IN  WithList(_get_or_create_active_list(s))

-----------------------------------------------------------------------------
(* The retailer client's product search (src/app/kroger_service.py) *)

\* str.split(): the words between runs of whitespace
RECURSIVE FirstWord(_)
FirstWord(s) ==
    IF s = <<>> \/ IsSpace(Head(s)) THEN <<>> ELSE <<Head(s)>> \o FirstWord(Tail(s))
RECURSIVE Split(_)
Split(s) ==
    IF LStrip(s) = <<>> THEN <<>>
    ELSE <<FirstWord(LStrip(s))>>
         \o Split(SubSeq(LStrip(s), Len(FirstWord(LStrip(s))) + 1, Len(LStrip(s))))

\* " ".join(words)
RECURSIVE Join(_)
Join(words) ==
    IF words = <<>> THEN <<>>
    ELSE IF Len(words) = 1 THEN words[1]
    ELSE words[1] \o <<" ">> \o Join(Tail(words))

prefixes_to_strip ==
    { <<"o", "r", "g", "a", "n", "i", "c">>, <<"f", "r", "e", "s", "h">>,
      <<"f", "r", "o", "z", "e", "n">>, <<"d", "r", "i", "e", "d">>,
      <<"c", "a", "n", "n", "e", "d">>, <<"w", "h", "o", "l", "e">>,
      <<"r", "a", "w">>, <<"n", "a", "t", "u", "r", "a", "l">>,
      <<"p", "u", "r", "e">> }

_simplify_search_term(term) ==
    LET filtered == SelectSeq(Split(StrLower(term)), LAMBDA w : w \notin prefixes_to_strip)
    IN  IF filtered = <<>> THEN term ELSE Join(filtered)

\* one request of _do_search: the term sent (the brand hint in front of it),
\* the location filter, and the products the catalog answered with
_do_search(term, brand, location_id, products) ==
    [ term |-> IF brand # <<>> THEN brand \o <<" ">> \o term ELSE term,
      location_id |-> location_id, products |-> products ]

\* the variant that searches without the location filter first
search_products_unfiltered_first(term, brand, location_id, answers) ==
    LET first  == _do_search(term, brand, NoneStr, answers[1])
        second == _do_search(term, brand, location_id, answers[2])
    IN  IF first.products # <<>>
        THEN [ results |-> first.products, location_filtered |-> FALSE,
               requests |-> <<first>> ]
        ELSE [ results |-> second.products, location_filtered |-> second.products # <<>>,
               requests |-> <<first, second>> ]

\* search_products; location_id is settings.kroger_location_id, answers what
\* the catalog returns to the first, second and third request made.  The
\* requests made are returned with the result.
search_products(term, brand, location_id, answers) ==
    LET located == IF location_id # NoneStr
                   THEN <<_do_search(term, brand, location_id, answers[1])>>
                   ELSE <<>>
        plain  == _do_search(term, brand, NoneStr, answers[Len(located) + 1])
        simple == _do_search(_simplify_search_term(term), brand, NoneStr,
                             answers[Len(located) + 2])
    IN  IF located # <<>> /\ located[1].products # <<>>
        THEN [ results |-> located[1].products, location_filtered |-> TRUE,
               requests |-> located ]
        ELSE IF plain.products # <<>>
        THEN [ results |-> plain.products, location_filtered |-> FALSE,
               requests |-> Append(located, plain) ]
        ELSE IF _simplify_search_term(term) # StrLower(term)
        THEN [ results |-> simple.products, location_filtered |-> FALSE,
               requests |-> located \o <<plain, simple>> ]
        ELSE [ results |-> <<>>, location_filtered |-> FALSE,
               requests |-> Append(located, plain) ]

-----------------------------------------------------------------------------
(* Write tool handlers: ingredients and the retailer *)

non_brand_words ==
    prefixes_to_strip
    \cup { <<"l", "o", "w">>, <<"f", "a", "t">>, <<"f", "r", "e", "e">>,
           <<"r", "e", "d", "u", "c", "e", "d">>, <<"l", "i", "g", "h", "t">> }

\* the variant that looks the ingredient up as the other ingredient tools do
execute_resolve_creating_ingredient(params, s, k, catalog) ==
    Returns(_log_event(_get_or_create_ingredient(Strip(params.ingredient_name), s).s,
                       "resolve_kroger"),
            [ ingredient_name |-> Strip(params.ingredient_name) ])

\* k.configured is is_configured(); catalog = [location_id, answers, raises]
\* is the configured store, what the catalog answers to the requests, and
\* whether a request raises
execute_resolve_kroger_product(params, s, k, catalog) ==
    LET brand_hint == IF StrLower(Strip(params.brand_hint)) \in non_brand_words
                      THEN <<>> ELSE Strip(params.brand_hint)
        Found(results) ==
            Returns(_log_event(s, "resolve_kroger"),
                    [ results |-> [ results |-> results.results,
                                    location_filtered |-> results.location_filtered,
                                    location_id |-> catalog.location_id ],
                      ingredient_name |-> Strip(params.ingredient_name) ])
    IN  IF ~k.configured THEN Returns(s, [error |-> "not_configured"])
        ELSE IF catalog.raises THEN Returns(s, [error |-> "search_failed"])
        ELSE Found(search_products(Strip(params.ingredient_name), brand_hint,
                                   catalog.location_id, catalog.answers))

execute_update_ingredient(params, s) ==
    LET Update(g, row) ==
            Returns(_log_event(Set(g.s, "ingredients", g.id, row), "update_ingredient"),
                    [ success         |-> TRUE,
                      ingredient_id   |-> g.id,
                      name            |-> row.name,
                      preferred_brand |-> row.preferred_brand ])
        WithIngredient(g) ==
            Update(g, [g.s.mem.ingredients[g.id] EXCEPT
                         !.preferred_brand = IF params.preferred_brand # NoneStr
                                             THEN params.preferred_brand ELSE @])
    IN  WithIngredient(_get_or_create_ingredient(Strip(params.name), s))

execute_confirm_kroger_product(params, s) ==
    LET Confirm(g, row) ==
            Returns(_log_event(Set(g.s, "ingredients", g.id, row), "confirm_kroger"),
                    [ success           |-> TRUE,
                      ingredient_id     |-> g.id,
                      name              |-> row.name,
                      kroger_product_id |-> params.kroger_product_id,
                      brand             |-> row.preferred_brand,
                      size              |-> row.preferred_size,
                      price             |-> row.last_known_price ])
        WithIngredient(g) ==
            Confirm(g, [g.s.mem.ingredients[g.id] EXCEPT
                          !.kroger_product_id = params.kroger_product_id,
                          !.preferred_brand =
                              IF params.brand # NoneStr THEN params.brand ELSE @,
                          !.preferred_size =
                              IF params.size # NoneStr THEN params.size ELSE @,
                          !.last_known_price =
                              IF params.price # NoneInt THEN params.price ELSE @])
    IN  WithIngredient(_get_or_create_ingredient(Strip(params.ingredient_name), s))

execute_set_purchase_source(params, s) ==
    LET source == IF params.source \in {"null", "none", "kroger", ""}
                  THEN NoneStr ELSE params.source
        SetSource(g, row) ==
            Returns(_log_event(Set(g.s, "ingredients", g.id, row), "update_ingredient"),
                    [ success         |-> TRUE,
                      ingredient_name |-> row.name,
                      purchase_source |-> source ])
        WithIngredient(g) ==
            SetSource(g, [g.s.mem.ingredients[g.id] EXCEPT !.purchase_source = source])
    IN  WithIngredient(_get_or_create_ingredient(Strip(params.ingredient_name), s))

\* looks the ingredient up by its normalized name only, and logs no event
execute_set_ingredient_alias(params, s) ==
    LET alias      == Strip(params.alias)
        normalized == normalize_ingredient_name(Strip(params.ingredient_name))
        Known(old) == { normalize_ingredient_name(old.aliases[k]) :
                          k \in 1..Len(old.aliases) }
        AddAlias(id, old) ==
            IF normalize_ingredient_name(alias) \in Known(old)
            THEN Returns(s, [message |-> "alias_exists", ingredient_name |-> old.name])
            ELSE Returns(Set(s, "ingredients", id, [old EXCEPT !.aliases = Append(@, alias)]),
                         [ success         |-> TRUE,
                           ingredient_name |-> old.name,
                           alias_added     |-> alias,
                           all_aliases     |-> Append(old.aliases, alias) ])
        Found(found) ==
            IF found = {} THEN Returns(s, [error |-> "not_found"])
            ELSE AddAlias(First(found), s.mem.ingredients[First(found)])
    IN  IF alias = <<>> THEN Returns(s, [error |-> "empty_alias"])
        ELSE Found({ i \in DOMAIN s.db.ingredients :
                       s.db.ingredients[i].normalized_name = normalized })

\* the loop over the items of the list: <<resolved, unresolved, skipped>>
RECURSIVE SplitItems(_, _, _)
SplitItems(s, ids, acc) ==
    IF ids = <<>> THEN acc
    ELSE LET item == s.mem.items[Head(ids)]
             ing  == s.mem.ingredients[item.ingredient_id]
         IN  SplitItems(s, Tail(ids),
                IF ing.purchase_source # NoneStr
                THEN [acc EXCEPT !.skipped = Append(@, ing.name)]
                ELSE IF ing.kroger_product_id # NoneStr
                THEN [acc EXCEPT !.resolved =
                         Append(@, [upc |-> ing.kroger_product_id,
                                    quantity |-> IF item.quantity = NoneInt
                                                 THEN 1 ELSE item.quantity])]
                ELSE [acc EXCEPT !.unresolved = Append(@, ing.name)])

\* kroger_service.add_items_to_cart: without a user token nothing is sent
add_items_to_cart(items, c, response) ==
    [ cart    |-> IF response = "no_token" THEN c ELSE Append(c, items),
      success |-> response = "ok" ]

\* yields [s, r, raised, cart]; k is the retailer client's state and response
\* the outcome of the cart request
execute_add_to_kroger_cart(params, s, k, c, response) ==
    LET Out(st, r, ct) == [s |-> st, r |-> r, raised |-> FALSE, cart |-> ct]
        Archived(l) == [l.s.mem.lists[l.id] EXCEPT !.status = "ordered", !.ordered_at = Now]
        Sent(l, split, sent) ==
            IF sent.success
            THEN Out(_log_event(Set(l.s, "lists", l.id, Archived(l)), "add_to_cart"),
                     [ success       |-> TRUE,
                       items_added   |-> Len(split.resolved),
                       list_archived |-> TRUE ], sent.cart)
            ELSE Out(l.s, [error |-> "cart_failed"], sent.cart)
        Submit(l, split) ==
            IF split.unresolved # <<>>
            THEN Out(l.s, [ error          |-> "unresolved_items",
                            unresolved     |-> split.unresolved,
                            resolved_count |-> Len(split.resolved) ], c)
            ELSE Sent(l, split, add_items_to_cart(split.resolved, c, response))
        Items(l, items) ==
            IF items = <<>> THEN Out(l.s, [error |-> "empty_list"], c)
            ELSE Submit(l, SplitItems(l.s, items, [ resolved |-> <<>>, unresolved |-> <<>>,
                                                     skipped |-> <<>> ]))
        WithList(l) == Items(l, InOrder(ItemsOf(l.s.db, l.id)))
    IN  IF ~k.configured THEN Out(s, [error |-> "not_configured"], c)
        ELSE IF ~k.authenticated THEN Out(s, [error |-> "not_authenticated"], c)
        ELSE WithList(_get_or_create_active_list(s))

-----------------------------------------------------------------------------
(* Write tool handlers: the pantry *)

\* the PantryItem rows whose item_name matches, as a query sees them
PantryMatches(s, item_name) ==
    { p \in DOMAIN s.db.pantry : ILike(s.db.pantry[p].item_name, item_name) }

\* one "add or update" step, shared by add_pantry_item and add_pantry_batch:
\* yields [s, action]
PantryUpsert(item_name, quantity, s) ==
    LET Update(g, id, old) ==
            [ s |-> Set(g.s, "pantry", id,
                        [old EXCEPT !.quantity = IF quantity # NoneInt THEN quantity ELSE @,
                                    !.ingredient_id = IF @ = NoneInt THEN g.id ELSE @]),
              action |-> "updated", ingredient_id |-> g.id ]
        Insert(g) ==
            [ s |-> Add(g.s, "pantry", NewId(g.s, "pantry"),
                        [item_name |-> item_name, quantity |-> quantity,
                         ingredient_id |-> g.id]),
              action |-> "added", ingredient_id |-> g.id ]
        Upsert(g, existing) ==
            IF existing # {}
            THEN Update(g, First(existing), g.s.mem.pantry[First(existing)])
            ELSE Insert(g)
        WithIngredient(g) == Upsert(g, PantryMatches(g.s, item_name))
    IN  WithIngredient(_get_or_create_ingredient(item_name, s))

execute_add_pantry_item(params, s) ==
    LET item_name == Strip(params.item_name)
        Done(u) ==
            Returns(_log_event(u.s, "add_pantry_item"),
                    [ success       |-> TRUE,
                      item_name     |-> item_name,
                      action        |-> u.action,
                      ingredient_id |-> u.ingredient_id ])
    IN  Done(PantryUpsert(item_name, params.quantity, s))

\* the loop of add_pantry_batch: [s, added, updated]
RECURSIVE PantryBatchLoop(_, _)
PantryBatchLoop(items, acc) ==
    LET Count(item_name, u) ==
            [ s       |-> u.s,
              added   |-> IF u.action = "added"
                          THEN Append(acc.added, item_name) ELSE acc.added,
              updated |-> IF u.action = "updated"
                          THEN Append(acc.updated, item_name) ELSE acc.updated ]
        One(item_name, quantity) ==
            IF item_name = <<>> THEN acc
            ELSE Count(item_name, PantryUpsert(item_name, quantity, acc.s))
    IN  IF items = <<>> THEN acc
        ELSE PantryBatchLoop(Tail(items),
                             One(Strip(Head(items).item_name), Head(items).quantity))

execute_add_pantry_batch(params, s) ==
    LET Done(b) ==
            Returns(_log_event(b.s, "add_pantry_item"),
                    [ success |-> TRUE,
                      added   |-> b.added,
                      updated |-> b.updated,
                      count   |-> Len(b.added) + Len(b.updated) ])
    IN  IF params.items = <<>> THEN Returns(s, [error |-> "no_items"])
        ELSE Done(PantryBatchLoop(params.items,
                                  [s |-> s, added |-> <<>>, updated |-> <<>>]))

execute_remove_pantry_item(params, s) ==
    LET item_name == Strip(params.item_name)
        Found(existing) ==
            IF existing = {} THEN Returns(s, [error |-> "not_found"])
            ELSE Returns(_log_event(Delete(s, "pantry", First(existing)),
                                    "remove_pantry_item"),
                         [success |-> TRUE, removed |-> item_name])
    IN  Found(PantryMatches(s, item_name))

-----------------------------------------------------------------------------
(* Write tool handlers: recipes, notes and the meal plan *)

\* the variant that links the notes carrying the recipe's name as written
_backfill_same_spelling(recipe_id, s) ==
    LET Link(orphaned) ==
            [ s |-> [s EXCEPT !.mem.notes =
                        [ n \in DOMAIN s.mem.notes |->
                            IF n \in orphaned
                            THEN [s.mem.notes[n] EXCEPT !.recipe_id = recipe_id]
                            ELSE s.mem.notes[n] ]],
              count |-> Cardinality(orphaned) ]
    IN  Link({ n \in DOMAIN s.db.notes :
                 /\ s.db.notes[n].recipe_id = NoneInt
                 /\ s.db.notes[n].recipe_name = s.mem.recipes[recipe_id].name })

\* notes without a recipe whose normalized recipe name is the recipe's
_backfill_orphaned_notes(recipe_id, s) ==
    LET normalized == normalize_recipe_name(s.mem.recipes[recipe_id].name)
        Link(orphaned) ==
            [ s |-> [s EXCEPT !.mem.notes =
                        [ n \in DOMAIN s.mem.notes |->
                            IF n \in orphaned
                            THEN [s.mem.notes[n] EXCEPT !.recipe_id = recipe_id]
                            ELSE s.mem.notes[n] ]],
              count |-> Cardinality(orphaned) ]
    IN  Link({ n \in DOMAIN s.db.notes :
                 /\ s.db.notes[n].recipe_id = NoneInt
                 /\ s.db.notes[n].recipe_name_normalized = normalized })

\* the loop of add_recipe over its ingredients: [s, ingredients]
RECURSIVE LinkIngredients(_, _, _)
LinkIngredients(names, recipe_id, acc) ==
    LET Link(g) ==
            [ s |-> Add(g.s, "links", NewId(g.s, "links"),
                        [recipe_id |-> recipe_id, ingredient_id |-> g.id]),
              ingredients |-> Append(acc.ingredients, g.id) ]
        One(ing_name) ==
            IF ing_name = <<>> THEN acc
            ELSE Link(_get_or_create_ingredient(ing_name, acc.s))
    IN  IF names = <<>> THEN acc
        ELSE LinkIngredients(Tail(names), recipe_id, One(Strip(Head(names))))

execute_add_recipe(params, s) ==
    LET name == Strip(params.name)
        Done(id, l, b) ==
            Returns(_log_event(b.s, "add_recipe"),
                    [ success          |-> TRUE,
                      recipe_id        |-> id,
                      name             |-> name,
                      ingredient_count |-> Len(l.ingredients),
                      ingredients      |-> l.ingredients,
                      notes_linked     |-> b.count ])
        Linked(id, l) == Done(id, l, _backfill_orphaned_notes(id, Flush(l.s)))
        Created(id, s1) ==
            Linked(id, LinkIngredients(params.ingredients, id,
                                       [s |-> s1, ingredients |-> <<>>]))
    IN  Created(NewId(s, "recipes"),
                Flush(Add(s, "recipes", NewId(s, "recipes"), [name |-> name])))

\* the recipe is looked up with Recipe.name ILIKE '%recipe_name%'
execute_add_recipe_note(params, s) ==
    LET recipe_name == Strip(params.recipe_name)
        Note(recipes) ==
            [ recipe_id   |-> IF recipes # {} THEN First(recipes) ELSE NoneInt,
              recipe_name |-> recipe_name,
              recipe_name_normalized |-> normalize_recipe_name(recipe_name),
              outcome     |-> params.outcome ]
        Done(id, note) ==
            Returns(_log_event(Flush(Add(s, "notes", id, note)), "add_recipe_note"),
                    [success |-> TRUE, note_id |-> id, recipe_name |-> recipe_name])
    IN  Done(NewId(s, "notes"),
             Note({ r \in DOMAIN s.db.recipes :
                      Contains(StrLower(s.db.recipes[r].name), StrLower(recipe_name)) }))

Today == 1

PlanningPlans(store) == { p \in DOMAIN store.plans : store.plans[p].status = "planning" }

\* .order_by(MealPlan.created_at.desc()).first(): the plan created last
Latest(ids) == Max(ids)

\* the variant that takes today whatever the table holds
TodayAsWeekStart(store, start) == start

\* the first date from today on that no MealPlan row uses
RECURSIVE FreeWeekStart(_, _)
FreeWeekStart(store, start) ==
    IF \E p \in DOMAIN store.plans : store.plans[p].week_start_date = start
    THEN FreeWeekStart(store, start + 1) ELSE start

_get_or_create_active_meal_plan(s) ==
    LET id   == NewId(s, "plans")
        plan == [ week_start_date |-> FreeWeekStart(s.db, Today),
                  meals  |-> <<>>,
                  status |-> "planning" ]
    IN  IF PlanningPlans(s.db) # {}
        THEN [s |-> s, id |-> Latest(PlanningPlans(s.db))]
        ELSE [s |-> Flush(Add(s, "plans", id, plan)), id |-> id]

execute_add_meal(params, s) ==
    LET meal == [meal_name |-> Strip(params.meal_name), recipe_id |-> params.recipe_id]
        WithPlan(p) ==
            Returns(_log_event(Set(p.s, "plans", p.id,
                                   [p.s.mem.plans[p.id] EXCEPT !.meals = Append(@, meal)]),
                               "add_meal"),
                    [success |-> TRUE, meal_name |-> meal.meal_name, plan_id |-> p.id])
    IN  WithPlan(_get_or_create_active_meal_plan(s))

execute_remove_meal(params, s) ==
    LET meal_name == StrLower(Strip(params.meal_name))
        Remove(id, remaining) ==
            IF Len(remaining) = Len(s.mem.plans[id].meals)
            THEN Returns(s, [error |-> "meal_not_found"])
            ELSE Returns(_log_event(Set(s, "plans", id,
                                        [s.mem.plans[id] EXCEPT !.meals = remaining]),
                                    "remove_meal"),
                         [success |-> TRUE, removed |-> params.meal_name])
        Found(id) ==
            IF s.mem.plans[id].meals = <<>> THEN Returns(s, [error |-> "no_plan"])
            ELSE Remove(id, SelectSeq(s.mem.plans[id].meals,
                                      LAMBDA m : StrLower(m.meal_name) # meal_name))
    IN  IF PlanningPlans(s.db) = {} THEN Returns(s, [error |-> "no_plan"])
        ELSE Found(Latest(PlanningPlans(s.db)))

execute_complete_meal_plan(params, s) ==
    LET Complete(id) ==
            Returns(_log_event(Set(s, "plans", id,
                                   [s.mem.plans[id] EXCEPT !.status = "completed"]),
                               "complete_meal_plan"),
                    [success |-> TRUE, plan_id |-> id])
    IN  IF PlanningPlans(s.db) = {} THEN Returns(s, [error |-> "no_plan"])
        ELSE Complete(Latest(PlanningPlans(s.db)))

\* the RecipeIngredient rows visited by generate_list_from_meals, in order:
\* for each meal with a recipe_id, the links of that recipe
RECURSIVE MealLinks(_, _)
MealLinks(s, meals) ==
    IF meals = <<>> THEN <<>>
    ELSE LET recipe_id == Head(meals).recipe_id
             links == { k \in DOMAIN s.db.links : s.db.links[k].recipe_id = recipe_id }
         IN  (IF recipe_id = NoneInt THEN <<>> ELSE InOrder(links))
             \o MealLinks(s, Tail(meals))

\* the loop of generate_list_from_meals over the visited links
RECURSIVE GenerateLoop(_, _, _, _)
GenerateLoop(links, list_id, pantry_names, acc) ==
    LET Item(ri) == [ shopping_list_id |-> list_id,
                      ingredient_id    |-> ri.ingredient_id,
                      quantity         |-> NoneInt,
                      checked_off      |-> FALSE,
                      from_recipe_id   |-> ri.recipe_id ]
        One(ri, ing) ==
            IF ri.ingredient_id \in acc.existing_ids
            THEN [acc EXCEPT !.skipped_existing = Append(@, ing.name)]
            ELSE IF ing.normalized_name \in pantry_names
            THEN [acc EXCEPT !.skipped_pantry = Append(@, ing.name)]
            ELSE [acc EXCEPT !.s = Add(@, "items", NewId(@, "items"), Item(ri)),
                             !.existing_ids = @ \cup {ri.ingredient_id},
                             !.items_added = @ + 1]
        Visit(ri) == One(ri, acc.s.mem.ingredients[ri.ingredient_id])
    IN  IF links = <<>> THEN acc
        ELSE GenerateLoop(Tail(links), list_id, pantry_names,
                          Visit(acc.s.mem.links[Head(links)]))

execute_generate_list_from_meals(params, s) ==
    LET Done(g) ==
            Returns(_log_event(g.s, "generate_list"),
                    [ success          |-> TRUE,
                      items_added      |-> g.items_added,
                      skipped_existing |-> g.skipped_existing,
                      skipped_pantry   |-> g.skipped_pantry ])
        Generate(plan, l) ==
            Done(GenerateLoop(
                    MealLinks(l.s, plan.meals), l.id,
                    { normalize_ingredient_name(l.s.mem.pantry[p].item_name) :
                        p \in DOMAIN l.s.db.pantry },
                    [ s |-> l.s,
                      existing_ids |-> { l.s.db.items[i].ingredient_id :
                                           i \in ItemsOf(l.s.db, l.id) },
                      items_added |-> 0,
                      skipped_existing |-> <<>>, skipped_pantry |-> <<>> ]))
        WithPlan(plan) ==
            IF plan.meals = <<>> THEN Returns(s, [error |-> "no_meals"])
            ELSE Generate(plan, _get_or_create_active_list(s))
    IN  IF PlanningPlans(s.db) = {} THEN Returns(s, [error |-> "no_meals"])
        ELSE WithPlan(s.mem.plans[Latest(PlanningPlans(s.db))])

-----------------------------------------------------------------------------
(* Read tool handlers *)

execute_get_shopping_list(params, s) ==
    LET Row(i, item, ing) ==
            [ item_id           |-> i,
              name              |-> ing.name,
              quantity          |-> item.quantity,
              checked_off       |-> item.checked_off,
              preferred_brand   |-> ing.preferred_brand,
              kroger_product_id |-> ing.kroger_product_id,
              from_recipe_id    |-> item.from_recipe_id,
              purchase_source   |-> ing.purchase_source ]
        Rows(id, rows) ==
            Returns(s, [ items      |-> [ k \in 1..Len(rows) |->
                                            Row(rows[k], s.mem.items[rows[k]],
                                                s.mem.ingredients[
                                                    s.mem.items[rows[k]].ingredient_id]) ],
                         list_id    |-> id,
                         item_count |-> Len(rows) ])
        Active(id) == Rows(id, InOrder(ItemsOf(s.db, id)))
    IN  IF ActiveLists(s.db) = {} THEN Returns(s, [items |-> <<>>, list_id |-> NoneInt])
        ELSE Active(First(ActiveLists(s.db)))

\* params.name is NoneStr when no name filter is given; params.has_kroger_id is
\* "true", "false" or NoneStr.  Both filters are SQL (db); the dicts are built
\* from the objects (mem).  The rows are listed by id, not by name.
execute_get_ingredients(params, s) ==
    LET Row(i, ing) ==
            [ id                |-> i,
              name              |-> ing.name,
              preferred_brand   |-> ing.preferred_brand,
              preferred_size    |-> ing.preferred_size,
              kroger_product_id |-> ing.kroger_product_id ]
        Rows(rows) ==
            Returns(s, [ ingredients |-> [ k \in 1..Len(rows) |->
                                             Row(rows[k], s.mem.ingredients[rows[k]]) ],
                         count       |-> Len(rows) ])
    IN  Rows(InOrder({ i \in DOMAIN s.db.ingredients :
                         /\ params.name # NoneStr =>
                              Contains(s.db.ingredients[i].normalized_name,
                                       normalize_ingredient_name(params.name))
                         /\ params.has_kroger_id = "true" =>
                              s.db.ingredients[i].kroger_product_id # NoneStr
                         /\ params.has_kroger_id = "false" =>
                              s.db.ingredients[i].kroger_product_id = NoneStr }))

\* has no try/except of its own: building has_positive_notes evaluates
\* NoteOutcome.SUCCESS, which the enum does not define, as soon as a listed
\* recipe has a note
execute_get_recipes(params, s) ==
    LET NotesOf(r) == { n \in DOMAIN s.db.notes : s.db.notes[n].recipe_id = r }
        Row(r) == [id |-> r, name |-> s.mem.recipes[r].name, note_count |-> 0]
        Rows(found, rows) ==
            IF \E r \in found : NotesOf(r) # {}
            THEN Raises(s)
            ELSE Returns(s, [ recipes |-> [k \in 1..Len(rows) |-> Row(rows[k])],
                              count   |-> Len(rows) ])
        Found(found) == Rows(found, InOrder(found))
    IN  Found({ r \in DOMAIN s.db.recipes :
                  params.name # NoneStr =>
                     Contains(StrLower(s.db.recipes[r].name), StrLower(params.name)) })

-----------------------------------------------------------------------------
(* Dispatch *)

\* the keys of TOOL_HANDLERS that are modelled
ToolNames ==
    { "get_shopping_list", "get_ingredients", "get_recipes",
      "add_item", "remove_item", "update_item", "clear_list", "finalize_order",
      "update_ingredient", "add_recipe_note", "add_recipe", "add_meal", "remove_meal",
      "generate_list_from_meals", "complete_meal_plan",
      "add_pantry_item", "add_pantry_batch", "remove_pantry_item",
      "resolve_kroger_product", "confirm_kroger_product", "add_to_kroger_cart",
      "check_off_item",
      "set_ingredient_alias", "set_purchase_source" }

\* env = [committed, kroger, cart, response]: what the handlers reach besides the
\* session.  Every handler's outcome is given the cart it leaves.
TOOL_HANDLERS(tool_name, params, s, env) ==
    LET Keep(o) == [s |-> o.s, r |-> o.r, raised |-> o.raised, cart |-> env.cart]
    IN  CASE tool_name = "get_shopping_list" -> Keep(execute_get_shopping_list(params, s))
          [] tool_name = "get_ingredients" -> Keep(execute_get_ingredients(params, s))
          [] tool_name = "get_recipes" -> Keep(execute_get_recipes(params, s))
          [] tool_name = "add_item" -> Keep(execute_add_item(params, s))
          [] tool_name = "remove_item" -> Keep(execute_remove_item(params, s))
          [] tool_name = "update_item" -> Keep(execute_update_item(params, s))
          [] tool_name = "clear_list" -> Keep(execute_clear_list(params, s))
          [] tool_name = "finalize_order" -> Keep(execute_finalize_order(params, s))
          [] tool_name = "update_ingredient" -> Keep(execute_update_ingredient(params, s))
          [] tool_name = "add_recipe_note" -> Keep(execute_add_recipe_note(params, s))
          [] tool_name = "add_recipe" -> Keep(execute_add_recipe(params, s))
          [] tool_name = "add_meal" -> Keep(execute_add_meal(params, s))
          [] tool_name = "remove_meal" -> Keep(execute_remove_meal(params, s))
          [] tool_name = "generate_list_from_meals" ->
                Keep(execute_generate_list_from_meals(params, s))
          [] tool_name = "complete_meal_plan" -> Keep(execute_complete_meal_plan(params, s))
          [] tool_name = "add_pantry_item" -> Keep(execute_add_pantry_item(params, s))
          [] tool_name = "add_pantry_batch" -> Keep(execute_add_pantry_batch(params, s))
          [] tool_name = "remove_pantry_item" -> Keep(execute_remove_pantry_item(params, s))
          [] tool_name = "resolve_kroger_product" ->
                Keep(execute_resolve_kroger_product(params, s, env.kroger, env.catalog))
          [] tool_name = "confirm_kroger_product" ->
                Keep(execute_confirm_kroger_product(params, s))
          [] tool_name = "add_to_kroger_cart" ->
                execute_add_to_kroger_cart(params, s, env.kroger, env.cart, env.response)
          [] tool_name = "check_off_item" -> Keep(execute_check_off_item(params, s))
          [] tool_name = "set_ingredient_alias" ->
                Keep(execute_set_ingredient_alias(params, s))
          [] tool_name = "set_purchase_source" ->
                Keep(execute_set_purchase_source(params, s))

\* Session.rollback(): the transaction's writes and the pending work are dropped
Rollback(env) == [db |-> env.committed, mem |-> env.committed, del |-> NoDeletes]

\* the try/except around the handler call: o is what the call did
Caught(o, env) ==
    IF o.raised
    THEN [s |-> Rollback(env), r |-> [error |-> "handler_failed", TOOL_ERROR |-> TRUE],
          cart |-> o.cart]
    ELSE [s |-> o.s, r |-> o.r, cart |-> o.cart]

\* the variants whose except branch does not roll back
Uncaught(o) ==
    IF o.raised
    THEN [s |-> o.s, r |-> [error |-> "handler_failed", TOOL_ERROR |-> TRUE], cart |-> o.cart]
    ELSE [s |-> o.s, r |-> o.r, cart |-> o.cart]

execute_tool_no_rollback(tool_name, params, s, env) ==
    IF tool_name \notin ToolNames
    THEN [s |-> s, r |-> [error |-> "unknown_tool", TOOL_ERROR |-> TRUE], cart |-> env.cart]
    ELSE Uncaught(TOOL_HANDLERS(tool_name, params, s, env))

execute_tool(tool_name, params, s, env) ==
    IF tool_name \notin ToolNames
    THEN [s |-> s, r |-> [error |-> "unknown_tool", TOOL_ERROR |-> TRUE], cart |-> env.cart]
    ELSE Caught(TOOL_HANDLERS(tool_name, params, s, env), env)

-----------------------------------------------------------------------------
(* Inputs *)

Milk      == <<"M", "i", "l", "k">>
MilkBang  == <<"m", "i", "l", "k", "!">>
MilkUpper == <<" ", "M", "I", "L", "K">>
Egg       == <<"E", "g", "g">>
Moo       == <<"M", "o", "o">>
Omelet    == <<"O", "m", "e", "l", "e", "t">>

MilkNames == {Milk, MilkBang, MilkUpper}
ItemNames == {Milk, Egg}

-----------------------------------------------------------------------------
(* The state machine: one action per tool call through execute_tool *)

Session == [db |-> db, mem |-> mem, del |-> del]

\* the catalog a call that searches meets; the other calls make no request
NoCatalog == [location_id |-> NoneStr, answers |-> <<<<>>, <<>>, <<>>>>, raises |-> FALSE]
Catalog(k) == IF "catalog" \in DOMAIN k THEN k.catalog ELSE NoCatalog

\* what a call meets outside the session: the rows of the last commit, the
\* cart, and for the retailer client k = [configured, authenticated, response]
Env(k) ==
    [ committed |-> committed, cart |-> cart,
      kroger |-> [configured |-> k.configured, authenticated |-> k.authenticated],
      response |-> k.response, catalog |-> Catalog(k) ]

NoKroger == [configured |-> FALSE, authenticated |-> FALSE, response |-> "none"]

InBounds(o) ==
    /\ Cardinality(DOMAIN o.s.mem.lists) <= MaxLists
    /\ Cardinality(DOMAIN o.s.mem.items) <= MaxItems
    /\ Cardinality(DOMAIN o.s.mem.pantry) <= MaxPantry
    /\ Cardinality(DOMAIN o.s.mem.recipes) <= MaxRecipes
    /\ Cardinality(DOMAIN o.s.mem.notes) <= MaxNotes
    /\ \A p \in DOMAIN o.s.mem.plans : Len(o.s.mem.plans[p].meals) <= MaxMeals
    /\ Len(o.s.mem.events) <= MaxEvents
    /\ Len(o.cart) <= MaxCart

\* the step a call makes: o is what execute_tool yields
Step(tool_name, params, o) ==
    /\ InBounds(o)
    /\ db' = o.s.db
    /\ mem' = o.s.mem
    /\ del' = o.s.del
    /\ result' = o.r
    /\ cart' = o.cart
    /\ UNCHANGED <<committed, database, invocation, inbox, said, loop, kroger_service>>

Call(tool_name, params, k) ==
    /\ Step(tool_name, params, execute_tool(tool_name, params, Session, Env(k)))
    /\ last' = [tool |-> tool_name, params |-> params, kroger |-> k]

NoParams == [none |-> TRUE]

AddItem == \E name \in ItemNames :
    /\ Call("add_item", [name |-> name, quantity |-> 1], NoKroger)

AddItemAnyName == \E name \in MilkNames \cup {Moo} :
    /\ Call("add_item", [name |-> name, quantity |-> 1], NoKroger)

RemoveItem == \E name \in ItemNames :
    /\ Call("remove_item", [name |-> name], NoKroger)

UpdateItem == \E name \in {Milk} :
    /\ Call("update_item", [item_name |-> name, quantity |-> 2], NoKroger)

ClearList ==
    /\ Call("clear_list", NoParams, NoKroger)

CheckOffItem == \E name \in {Milk} :
    /\ Call("check_off_item", [name |-> name], NoKroger)

FinalizeOrder ==
    /\ Call("finalize_order", NoParams, NoKroger)

GenerateListFromMeals ==
    /\ Call("generate_list_from_meals", NoParams, NoKroger)

\* the cart request is only made by a configured, authenticated client
KrogerCases ==
    { [configured |-> FALSE, authenticated |-> FALSE, response |-> "none"],
      [configured |-> TRUE, authenticated |-> FALSE, response |-> "none"] }
    \cup [ configured : {TRUE}, authenticated : {TRUE},
           response : {"ok", "http_error", "no_token"} ]

AddToKrogerCart == \E k \in KrogerCases :
    /\ Call("add_to_kroger_cart", NoParams, k)

UpdateIngredient == \E name \in {MilkBang, Egg} :
    /\ Call("update_ingredient", [name |-> name, preferred_brand |-> "brandA"], NoKroger)

\* the client not configured; configured with a catalog that answers the
\* first request, the second or none; configured with a request that raises
CatalogCases ==
    {NoKroger}
    \cup { [ configured |-> TRUE, authenticated |-> FALSE, response |-> "none",
             catalog |-> [location_id |-> "loc1", answers |-> answers, raises |-> FALSE] ] :
             answers \in {<<<<"upc1">>, <<>>, <<>>>>, <<<<>>, <<"upc2">>, <<>>>>,
                          <<<<>>, <<>>, <<>>>>} }
    \cup { [ configured |-> TRUE, authenticated |-> FALSE, response |-> "none",
             catalog |-> [location_id |-> "loc1", answers |-> <<<<>>, <<>>, <<>>>>,
                          raises |-> TRUE] ] }

ResolveKrogerProduct ==
    \E name \in {Milk}, brand_hint \in {<<"A">>, <<"f", "a", "t">>},
       k \in CatalogCases :
        /\ Call("resolve_kroger_product",
                [ingredient_name |-> name, brand_hint |-> brand_hint], k)

ConfirmKrogerProduct ==
    \E name \in {MilkUpper}, brand \in {NoneStr, "brandB"}, price \in {NoneInt, 3} :
        /\ Call("confirm_kroger_product",
             [ ingredient_name |-> name, kroger_product_id |-> "upc1",
               brand |-> brand, size |-> NoneStr, price |-> price ], NoKroger)

ConfirmMilk ==
    /\ Call("confirm_kroger_product",
         [ ingredient_name |-> Milk, kroger_product_id |-> "upc1",
           brand |-> "brandB", size |-> NoneStr, price |-> 3 ], NoKroger)

SetPurchaseSource == \E name \in {MilkBang}, source \in {"costco", "kroger"} :
    /\ Call("set_purchase_source", [ingredient_name |-> name, source |-> source], NoKroger)

SetIngredientAlias ==
    /\ Call("set_ingredient_alias", [ingredient_name |-> Milk, alias |-> Moo], NoKroger)

AddRecipe ==
    /\ Call("add_recipe", [name |-> Omelet, ingredients |-> <<Milk, Egg>>], NoKroger)

AddRecipeOfMilk ==
    /\ Call("add_recipe", [name |-> Omelet, ingredients |-> <<Milk>>], NoKroger)

AddRecipeNote == \E recipe_name \in {Omelet} :
    /\ Call("add_recipe_note", [recipe_name |-> recipe_name, outcome |-> "better"], NoKroger)

\* notes under other spellings of the recipe's name, and under another name
OmeletBang == <<"o", "m", "e", "l", "e", "t", "!">>

AddRecipeNoteAnyName == \E recipe_name \in {OmeletBang, Moo} :
    /\ Call("add_recipe_note", [recipe_name |-> recipe_name, outcome |-> "worse"], NoKroger)

AddMeal == \E recipe_id \in {NoneInt, 1} :
    /\ Call("add_meal", [meal_name |-> Omelet, recipe_id |-> recipe_id], NoKroger)

RemoveMeal == \E meal_name \in {Omelet, Moo} :
    /\ Call("remove_meal", [meal_name |-> meal_name], NoKroger)

CompleteMealPlan ==
    /\ Call("complete_meal_plan", NoParams, NoKroger)

AddPantryItem == \E name \in {Milk, MilkUpper}, quantity \in {1, 2} :
    /\ Call("add_pantry_item", [item_name |-> name, quantity |-> quantity], NoKroger)

AddPantryMilk ==
    /\ Call("add_pantry_item", [item_name |-> Milk, quantity |-> 1], NoKroger)

AddPantryBatch == \E name \in {Milk, Egg} :
    /\ Call("add_pantry_batch",
            [items |-> << [item_name |-> Milk, quantity |-> 1],
                          [item_name |-> name, quantity |-> 2] >>], NoKroger)

RemovePantryItem == \E name \in {Milk} :
    /\ Call("remove_pantry_item", [item_name |-> name], NoKroger)

GetShoppingList ==
    /\ Call("get_shopping_list", NoParams, NoKroger)

GetIngredients ==
    \E name \in {NoneStr, Milk}, has_kroger_id \in {NoneStr, "true"} :
        /\ Call("get_ingredients", [name |-> name, has_kroger_id |-> has_kroger_id], NoKroger)

GetRecipes ==
    /\ Call("get_recipes", [name |-> NoneStr], NoKroger)

UnknownTool ==
    /\ Call("order_pizza", NoParams, NoKroger)

\* the end of a loop invocation: Session.commit() flushes and commits
Commit ==
    /\ db' = Logical(Session)
    /\ mem' = Logical(Session)
    /\ del' = NoDeletes
    /\ committed' = Logical(Session)
    /\ last' = [tool |-> "commit", params |-> NoParams, kroger |-> NoKroger]
    /\ UNCHANGED <<result, cart, database, invocation, inbox, said, loop, kroger_service>>

-----------------------------------------------------------------------------
(* The message pipeline (src/app/slack_handler.py, src/app/action_parser.py):  *)
(* handle_message -> process_message -> get_claude_response ->               *)
(* process_claude_response -> execute_action.  Its shopping list keeps the   *)
(* items in the JSON column ShoppingList.items.  Every invocation has a      *)
(* session of its own on the shared database; the database runs the          *)
(* transactions at READ COMMITTED, so a query sees the rows committed so far *)
(* and the rows its own transaction has flushed.                             *)

\* the invocations that may run at the same time
Workers == {1, 2}

Columns == {"status", "items"}

\* the row `base` with the columns `cols` taken from `row`
Merge(base, row, cols) ==
    [ status |-> IF "status" \in cols THEN row.status ELSE base.status,
      items  |-> IF "items" \in cols THEN row.items ELSE base.items ]

ColumnsOf(pairs, id) == { c \in Columns : <<id, c>> \in pairs }

\* SessionLocal(): no object loaded, nothing written
\*   own    the rows this transaction has flushed, wrote their written columns
\*   mem    the objects of the session, dirty their unflushed columns
NewSession == [own |-> <<>>, wrote |-> {}, mem |-> <<>>, dirty |-> {}]

\* the shopping_lists table as the SQL of transaction t sees it
Visible(t, d) ==
    [ id \in DOMAIN d.lists \cup DOMAIN t.own |->
        IF id \notin DOMAIN t.own THEN d.lists[id]
        ELSE IF id \notin DOMAIN d.lists THEN t.own[id]
        ELSE Merge(d.lists[id], t.own[id], ColumnsOf(t.wrote, id)) ]

\* Session.flush(): the dirty columns of the session's objects are written
SessionFlush(t) ==
    [ t EXCEPT
        !.own = [ id \in DOMAIN t.own \cup { p[1] : p \in t.dirty } |->
                    IF id \notin DOMAIN t.own THEN t.mem[id]
                    ELSE Merge(t.own[id], t.mem[id], ColumnsOf(t.dirty, id)) ],
        !.wrote = @ \cup t.dirty,
        !.dirty = {} ]

\* a database with a unique index over the active rows of shopping_lists
IndexPresent == TRUE

\* whether shopping_lists has such an index.  The migration that creates the
\* table is not among the sources (the later ones add none); the rule of one
\* active list is described as kept by the lookup of
\* get_or_create_active_list alone, with no constraint in the database.
UniqueActiveIndex == FALSE

\* Session.commit(): flush, make the transaction's rows the database's rows;
\* an index over the active rows would refuse a second one
SessionCommit(t, d) ==
    IF UniqueActiveIndex /\ Cardinality(ActiveLists([lists |-> Visible(SessionFlush(t), d)])) > 1
    THEN d
    ELSE [d EXCEPT !.lists = Visible(SessionFlush(t), d)]

\* the object a query returns for row id: the one the session already holds,
\* with its in-memory attribute values, or else a new one loaded from the row
Load(t, d, id) ==
    IF id \in DOMAIN t.mem THEN t ELSE [t EXCEPT !.mem = Put(@, id, Visible(t, d)[id])]

NewShoppingList == [status |-> "active", items |-> <<>>]

\* db_session.add(ShoppingList(status=ACTIVE, items=[])) under primary key id
AddList(t, id) ==
    [ t EXCEPT !.mem = Put(@, id, NewShoppingList),
               !.dirty = @ \cup { <<id, c>> : c \in Columns } ]

get_or_create_active_list(t, d, id) ==
    IF ActiveLists([lists |-> Visible(t, d)]) # {}
    THEN [ t |-> Load(t, d, First(ActiveLists([lists |-> Visible(t, d)]))),
           id |-> First(ActiveLists([lists |-> Visible(t, d)])) ]
    ELSE [ t |-> SessionFlush(AddList(t, id)), id |-> id ]

\* active_list.<column> = value
SetColumn(l, column, value) ==
    [ t |-> [ l.t EXCEPT !.mem[l.id][column] = value,
                         !.dirty = @ \cup {<<l.id, column>>} ],
      id |-> l.id ]

ValidationError == "ValidationError"

\* validate_action: the exception it raises, or NoneStr
validate_action(action) ==
    IF action.action_type \in {"add_item", "remove_item"}
       /\ Strip(action.data.name) = <<>>
    THEN ValidationError
    ELSE NoneStr

ap_execute_add_item(data, t, d, id) ==
    LET Add1(l) == SetColumn(l, "items", Append(l.t.mem[l.id].items, Strip(data.name))).t
    IN  Add1(get_or_create_active_list(t, d, id))

\* the list without the first entry that contains item_name
RECURSIVE RemoveFirst(_, _)
RemoveFirst(items, item_name) ==
    IF items = <<>> THEN <<>>
    ELSE IF Contains(StrLower(Head(items)), item_name) THEN Tail(items)
    ELSE <<Head(items)>> \o RemoveFirst(Tail(items), item_name)

ap_execute_remove_item(data, t, d, id) ==
    LET Remove1(l) ==
            IF l.t.mem[l.id].items = <<>> THEN l.t
            ELSE SetColumn(l, "items",
                     RemoveFirst(l.t.mem[l.id].items, StrLower(Strip(data.name)))).t
    IN  Remove1(get_or_create_active_list(t, d, id))

ap_execute_clear_list(t, d, id) ==
    SetColumn(get_or_create_active_list(t, d, id), "items", <<>>).t

ap_execute_finalize_order(t, d, id) ==
    LET Finalize1(l) ==
            IF l.t.mem[l.id].items = <<>> THEN l.t
            ELSE AddList(SetColumn(l, "status", "ordered").t,
                         Max(DOMAIN l.t.mem \cup {id - 1}) + 1)
    IN  Finalize1(get_or_create_active_list(t, d, id))

\* execute_action: the if/elif chain over action_type; a type it does not
\* know is logged and skipped
execute_action(action, t, d, id) ==
    CASE action.action_type = "add_item"       -> ap_execute_add_item(action.data, t, d, id)
      [] action.action_type = "remove_item"    -> ap_execute_remove_item(action.data, t, d, id)
      [] action.action_type = "clear_list"     -> ap_execute_clear_list(t, d, id)
      [] action.action_type = "finalize_order" -> ap_execute_finalize_order(t, d, id)
      [] OTHER                                 -> t

\* the next free primary key of shopping_lists once session t holds its rows
NextKey(t, id) == Max(DOMAIN t.mem \cup DOMAIN t.own \cup {id - 1}) + 1

\* the loop that gives up at the first action that raises
RECURSIVE RunActionsUntilFailure(_, _, _, _)
RunActionsUntilFailure(actions, t, d, id) ==
    IF actions = <<>> THEN [t |-> t, ran |-> <<>>]
    ELSE IF validate_action(Head(actions)) # NoneStr
    THEN [ t |-> t,
           ran |-> <<[action |-> Head(actions), outcome |-> validate_action(Head(actions))]>> ]
    ELSE LET Then(rest) ==
                 [ t |-> rest.t,
                   ran |-> <<[action |-> Head(actions), outcome |-> "executed"]>> \o rest.ran ]
             Rest(t1) == Then(RunActionsUntilFailure(Tail(actions), t1, d, NextKey(t1, id)))
         IN  Rest(execute_action(Head(actions), t, d, id))

\* the loop of process_claude_response over the parsed actions: each one is
\* validated and executed inside a try whose handlers log and continue.
\* `ran` records, in order, the actions the loop has been through; it stands
\* for the loop's log lines and is dropped when process_message moves on.
RECURSIVE RunActions(_, _, _, _)
RunActions(actions, t, d, id) ==
    IF actions = <<>> THEN [t |-> t, ran |-> <<>>]
    ELSE LET One(action) ==
                 IF validate_action(action) # NoneStr
                 THEN [t |-> t, outcome |-> validate_action(action)]
                 ELSE [t |-> execute_action(action, t, d, id), outcome |-> "executed"]
             Then(o, rest) ==
                 [ t |-> rest.t,
                   ran |-> <<[action |-> Head(actions), outcome |-> o.outcome]>> \o rest.ran ]
             Rest(o) == Then(o, RunActions(Tail(actions), o.t, d, NextKey(o.t, id)))
         IN  Rest(One(Head(actions)))

Or(text, default) == IF text = NoneStr THEN default ELSE text

\* process_claude_response for a model output with the text `response.text`
\* (NoneStr when it has neither a response tag nor plain text) and the actions
\* block `response.block` ("none": absent or <noop/>; "malformed": not
\* parsable; "parsed": response.actions are the parsed actions).  commit_ok tells whether the database
\* accepts the commit that follows the loop.
process_claude_response(response, t, d, id, commit_ok) ==
    LET Committed(o) ==
            IF commit_ok
            THEN [ t |-> NewSession, d |-> SessionCommit(o.t, d), ran |-> o.ran,
                   text |-> Or(response.text, "Done.") ]
            ELSE [ t |-> NewSession, d |-> d, ran |-> o.ran,
                   text |-> Or(response.text, "Sorry, I had trouble processing that.") ]
    IN  CASE response.block = "none" ->
                [ t |-> t, d |-> d, ran |-> <<>>,
                  text |-> Or(response.text, "I understand.") ]
          [] response.block = "malformed" ->
                [ t |-> t, d |-> d, ran |-> <<>>,
                  text |-> Or(response.text,
                              "I understand, but had trouble processing the action.") ]
          [] OTHER -> Committed(RunActions(response.actions, t, d, id))

\* handle_message's filters: bot messages, other channels, unknown users and
\* empty texts are acknowledged and dropped
Accepted(event) ==
    /\ ~event.bot
    /\ event.channel = "grocery"
    /\ event.user \in {"Erich", "L"}
    /\ Strip(event.text) # <<>>

ApiApology == "Sorry, I'm having trouble thinking right now. Try again in a moment."
HandlerApology == "Sorry, I'm having trouble right now. Try again in a moment."

NoResponse == [text |-> NoneStr, block |-> "none", actions |-> <<>>]

\* `refused` records which of the invocation's commits the database refused
Idle ==
    [ pc |-> "idle", message |-> 0, t |-> NewSession, status |-> NoneStr,
      response_text |-> NoneStr, ran |-> <<>>, raw |-> NoResponse, refused |-> {} ]

\* the next value of the shopping_lists key sequence
NextListId ==
    Max(DOMAIN database.lists
        \cup UNION { DOMAIN invocation[w].t.mem \cup DOMAIN invocation[w].t.own : w \in Workers })
    + 1

toolvars == <<db, mem, del, committed, result, last, cart, loop, kroger_service>>

\* inputs of the pipeline
Hello == <<"h", "i">>
Blank == <<" ">>

Events ==
    { [bot |-> FALSE, channel |-> "grocery", user |-> "Erich",    text |-> Hello],
      [bot |-> FALSE, channel |-> "grocery", user |-> "L",        text |-> Blank],
      [bot |-> TRUE,  channel |-> "grocery", user |-> "Erich",    text |-> Hello],
      [bot |-> FALSE, channel |-> "random",  user |-> "Erich",    text |-> Hello],
      [bot |-> FALSE, channel |-> "grocery", user |-> "stranger", text |-> Hello] }

ActionInputs ==
    { [action_type |-> "add_item",       data |-> [name |-> Milk]],
      [action_type |-> "add_item",       data |-> [name |-> Blank]],
      [action_type |-> "add_item",       data |-> [name |-> Egg]],
      [action_type |-> "finalize_order", data |-> [name |-> <<>>]] }

RareActions ==
    << [action_type |-> "remove_item",    data |-> [name |-> MilkUpper]],
       [action_type |-> "clear_list",     data |-> [name |-> <<>>]],
       [action_type |-> "order_pizza",    data |-> [name |-> <<>>]],
       [action_type |-> "remove_item",    data |-> [name |-> <<>>]] >>

Plans ==
    {RareActions} \cup UNION { [1..n -> ActionInputs] : n \in 1..MaxActions }

Responses ==
    { [text |-> text, block |-> block, actions |-> <<>>] :
        text \in {"On it.", NoneStr}, block \in {"none", "malformed"} }
    \cup { [text |-> text, block |-> "parsed", actions |-> actions] :
              text \in {"On it.", NoneStr}, actions \in Plans }

\* handle_message drops the event after ack()
Ignore == \E event \in Events :
    /\ Len(inbox) < MaxMessages
    /\ ~Accepted(event)
    /\ inbox' = Append(inbox, event)
    /\ UNCHANGED <<database, invocation, said>>
    /\ UNCHANGED toolvars

\* handle_message passes the event on to process_message
Receive(w) == \E event \in Events :
    /\ Len(inbox) < MaxMessages
    /\ invocation[w].pc = "idle"
    /\ Accepted(event)
    /\ inbox' = Append(inbox, event)
    /\ invocation' = [invocation EXCEPT ![w] = [Idle EXCEPT !.pc = "begin",
                                                            !.message = Len(inbox) + 1]]
    /\ UNCHANGED <<database, said>>
    /\ UNCHANGED toolvars

\* process_message opens its session and gets or creates the active list
Begin(w) ==
    /\ invocation[w].pc = "begin"
    /\ invocation' = [invocation EXCEPT
           ![w].t = get_or_create_active_list(NewSession, database, NextListId).t,
           ![w].pc = "respond"]
    /\ UNCHANGED <<database, inbox, said>>
    /\ UNCHANGED toolvars

\* the database fails process_message's first query: get_db_session rolls
\* back and re-raises, handle_message's except replies
BeginFails(w) ==
    /\ invocation[w].pc = "begin"
    /\ invocation' = [invocation EXCEPT ![w].pc = "idle"]
    /\ said' = Append(said, [message |-> invocation[w].message, text |-> HandlerApology])
    /\ UNCHANGED <<database, inbox>>
    /\ UNCHANGED toolvars

\* the variant that reports the failure but keeps no apology
ApiFailsWithoutText(w) ==
    /\ invocation[w].pc = "respond"
    /\ invocation' = [invocation EXCEPT ![w].status = "api_error", ![w].pc = "log"]
    /\ UNCHANGED <<database, inbox, said>>
    /\ UNCHANGED toolvars

\* get_claude_response raises
ApiFails(w) ==
    /\ invocation[w].pc = "respond"
    /\ invocation' = [invocation EXCEPT
           ![w].status = "api_error",
           ![w].response_text = ApiApology,
           ![w].pc = "log"]
    /\ UNCHANGED <<database, inbox, said>>
    /\ UNCHANGED toolvars

Responds(w, response, commit_ok) ==
    LET Took(o) ==
            /\ invocation' = [invocation EXCEPT
                   ![w].t = o.t,
                   ![w].status = "success",
                   ![w].response_text = o.text,
                   ![w].ran = o.ran,
                   ![w].raw = response,
                   ![w].refused = IF commit_ok THEN @ ELSE @ \cup {"actions"},
                   ![w].pc = "log"]
            /\ database' = o.d
    IN  /\ invocation[w].pc = "respond"
        /\ Took(process_claude_response(response, invocation[w].t, database,
                                        NextListId, commit_ok))
        /\ UNCHANGED <<inbox, said>>
        /\ UNCHANGED toolvars

\* get_claude_response returns and process_claude_response runs the actions
Respond(w) == \E response \in Responses :
    /\ Responds(w, response, TRUE)

\* the same, for the responses with at most one action
RespondBriefly(w) == \E response \in Responses :
    /\ Len(response.actions) <= 1
    /\ Responds(w, response, TRUE)

\* the same with a database that refuses the commit after the actions
RespondCommitFails(w) == \E response \in Responses :
    /\ response.block = "parsed"
    /\ Responds(w, response, FALSE)

\* process_message stores the Conversation row and commits
Log(w) ==
    /\ invocation[w].pc = "log"
    /\ database' = [ SessionCommit(invocation[w].t, database) EXCEPT
           !.conversations = Append(@, [ message |-> invocation[w].message,
                                         status |-> invocation[w].status,
                                         response |-> invocation[w].response_text ]) ]
    /\ invocation' = [invocation EXCEPT ![w].t = NewSession, ![w].pc = "exit",
                                         ![w].ran = <<>>, ![w].raw = NoResponse]
    /\ UNCHANGED <<inbox, said>>
    /\ UNCHANGED toolvars

\* the commit of the Conversation row raises: logged, the reply is kept
LogFails(w) ==
    /\ invocation[w].pc = "log"
    /\ invocation' = [invocation EXCEPT ![w].t = NewSession, ![w].pc = "exit",
                                         ![w].ran = <<>>, ![w].raw = NoResponse,
                                         ![w].refused = @ \cup {"log"}]
    /\ UNCHANGED <<database, inbox, said>>
    /\ UNCHANGED toolvars

\* process_message returns, get_db_session commits, handle_message says the reply
Exit(w) ==
    /\ invocation[w].pc = "exit"
    /\ database' = SessionCommit(invocation[w].t, database)
    /\ invocation' = [invocation EXCEPT ![w].t = NewSession, ![w].pc = "idle"]
    /\ said' = Append(said, [ message |-> invocation[w].message,
                              text |-> invocation[w].response_text ])
    /\ UNCHANGED inbox
    /\ UNCHANGED toolvars

\* the variant whose except branch stays silent
ExitFailsSilently(w) ==
    /\ invocation[w].pc = "exit"
    /\ invocation' = [invocation EXCEPT ![w].t = NewSession, ![w].pc = "idle"]
    /\ UNCHANGED <<database, inbox, said>>
    /\ UNCHANGED toolvars

\* get_db_session's commit raises: rollback, re-raise, handle_message's except
\* says its own apology
ExitFails(w) ==
    /\ invocation[w].pc = "exit"
    /\ invocation' = [invocation EXCEPT ![w].t = NewSession, ![w].pc = "idle",
                                         ![w].refused = @ \cup {"exit"}]
    /\ said' = Append(said, [message |-> invocation[w].message, text |-> HandlerApology])
    /\ UNCHANGED <<database, inbox>>
    /\ UNCHANGED toolvars

-----------------------------------------------------------------------------
(* The control loop around the tools.  Its code is not part of the sources *)
(* at hand, which hold only its settings (src/app/config.py); it is        *)
(* modelled from its description: model turns that either end the turn or  *)
(* request tools, a checkpoint note, and one summary call when the turns   *)
(* are used up.  The tool calls of a turn are abstracted to whether one    *)
(* of them succeeded.                                                      *)

max_tool_turns == 15
status_checkpoint_turn == 10

CannedApology == "apology"
Completed == "Completed: <tool names>."

\* only_tools: every model call so far has requested a tool call
NewLoop ==
    [ pc |-> "model", turn |-> 0, calls |-> 0, succeeded |-> FALSE, noted |-> FALSE,
      only_tools |-> TRUE, response |-> NoneStr ]

restvars ==
    <<db, mem, del, committed, result, last, cart, database, invocation, inbox, said,
      kroger_service>>

\* a model turn that requests tool calls
ModelRequestsTools ==
    /\ loop.pc = "model"
    /\ loop.turn < max_tool_turns
    /\ loop' = [loop EXCEPT !.pc = "tools", !.calls = @ + 1]
    /\ UNCHANGED restvars

\* a model turn that ends the turn, with a text or, after a successful tool,
\* without one
ModelEndsTurn(text) ==
    /\ loop.pc = "model"
    /\ loop.turn < max_tool_turns
    /\ text = NoneStr => loop.succeeded
    /\ loop' = [loop EXCEPT !.pc = "done", !.calls = @ + 1, !.only_tools = FALSE,
                             !.response = Or(text, Completed)]
    /\ UNCHANGED restvars

\* the model endpoint raises: fallback if a tool has succeeded, else re-raise
ModelRaises ==
    /\ loop.pc = "model"
    /\ loop' = [loop EXCEPT !.pc = IF loop.succeeded THEN "done" ELSE "raised",
                             !.calls = @ + 1, !.only_tools = FALSE,
                             !.response = IF loop.succeeded THEN Completed ELSE NoneStr]
    /\ UNCHANGED restvars

\* the variant that does not count the turn
ExecuteToolsUncounted(ok) ==
    /\ loop.pc = "tools"
    /\ loop' = [loop EXCEPT !.pc = "model", !.succeeded = @ \/ ok]
    /\ UNCHANGED restvars

\* the tool calls of the turn are executed, their results appended; at the
\* checkpoint turn the note is injected
ExecuteTools(ok) ==
    /\ loop.pc = "tools"
    /\ loop' = [loop EXCEPT !.pc = "model", !.turn = @ + 1, !.succeeded = @ \/ ok,
                             !.noted = @ \/ (loop.turn + 1 = status_checkpoint_turn)]
    /\ UNCHANGED restvars

\* the turns are used up: one more model call asks for a summary; without a
\* text from it the canned apology is the response
Summary(text) ==
    /\ loop.pc = "model"
    /\ loop.turn = max_tool_turns
    /\ loop' = [loop EXCEPT !.pc = "done", !.calls = @ + 1,
                             !.only_tools = @ /\ text = NoneStr,
                             !.response = Or(text, CannedApology)]
    /\ UNCHANGED restvars

NextLoop ==
    \/ ModelRequestsTools
    \/ \E text \in {"Done.", NoneStr} : ModelEndsTurn(text)
    \/ ModelRaises
    \/ \E ok \in BOOLEAN : ExecuteTools(ok)
    \/ \E text \in {"Summary.", NoneStr} : Summary(text)

-----------------------------------------------------------------------------
(* The retailer client (src/app/kroger_service.py): the user's OAuth       *)
(* tokens.  The module globals _user_token, _user_refresh_token and        *)
(* _user_token_expiry live as long as the process; the kroger_tokens       *)
(* table keeps one row across restarts.  time is the clock of time.time(), *)
(* in units of a token lifetime's fraction.  op, attempted and answer      *)
(* record the last operation, whether it posted a refresh to the token     *)
(* endpoint, and what it returned.                                         *)

\* what a token lives, in clock units: expires_in - 60
Lifetime == 2

\* the kroger_tokens table without a row
NoTokenRow ==
    [ present |-> FALSE, access_token |-> NoneStr, refresh_token |-> NoneStr,
      token_expiry |-> 0 ]

\* the module globals as the import leaves them, before the row is loaded
NoTokens ==
    [ _user_token |-> NoneStr, _user_refresh_token |-> NoneStr, _user_token_expiry |-> 0 ]

Globals(k) ==
    [ _user_token |-> k._user_token, _user_refresh_token |-> k._user_refresh_token,
      _user_token_expiry |-> k._user_token_expiry ]

\* the row's columns as the globals they are loaded into
RowTokens(k) ==
    [ _user_token |-> k.token_row.access_token,
      _user_refresh_token |-> k.token_row.refresh_token,
      _user_token_expiry |-> k.token_row.token_expiry ]

\* ok: the database answers; a failure is printed and swallowed
_load_tokens_from_db(k, ok) ==
    IF ok /\ k.token_row.present /\ k.token_row.refresh_token # NoneStr
    THEN [k EXCEPT !._user_token = k.token_row.access_token,
                   !._user_refresh_token = k.token_row.refresh_token,
                   !._user_token_expiry = k.token_row.token_expiry]
    ELSE k

\* the variant that writes the refresh token only
_save_refresh_token_only(k, ok) ==
    IF ok
    THEN [k EXCEPT !.token_row =
             [ present |-> TRUE, access_token |-> k.token_row.access_token,
               refresh_token |-> k._user_refresh_token,
               token_expiry |-> k.token_row.token_expiry ]]
    ELSE k

\* ok: the database accepts the commit; a failure is printed and swallowed
_save_tokens_to_db(k, ok) ==
    IF ok
    THEN [k EXCEPT !.token_row =
             [ present |-> TRUE, access_token |-> k._user_token,
               refresh_token |-> k._user_refresh_token,
               token_expiry |-> k._user_token_expiry ]]
    ELSE k

\* a response of the token endpoint: status ok or not; refresh_token is NoneStr
\* when the body has no such key
TokenFailure == [ok |-> FALSE, access_token |-> NoneStr, refresh_token |-> NoneStr]

_refresh_user_token(k, response, saved) ==
    IF k._user_refresh_token = NoneStr
    THEN [k EXCEPT !._user_token = NoneStr]
    ELSE IF response.ok
    THEN _save_tokens_to_db(
             [k EXCEPT !._user_token = response.access_token,
                       !._user_refresh_token =
                           IF response.refresh_token = NoneStr THEN @
                           ELSE response.refresh_token,
                       !._user_token_expiry = k.time + Lifetime,
                       !.attempted = TRUE], saved)
    ELSE [k EXCEPT !._user_token = NoneStr, !._user_token_expiry = 0,
                   !.attempted = TRUE]

\* is_user_authenticated; the answer is left in k.answer
is_user_authenticated(k, response, saved) ==
    IF k._user_token = NoneStr
    THEN [k EXCEPT !.answer = FALSE]
    ELSE IF k.time >= k._user_token_expiry
    THEN [_refresh_user_token(k, response, saved) EXCEPT
              !.answer = _refresh_user_token(k, response, saved)._user_token # NoneStr]
    ELSE [k EXCEPT !.answer = TRUE]

\* _get_user_token, as add_items_to_cart and get_purchase_history call it;
\* the answer is whether a token came back
_get_user_token(k, response, saved) ==
    IF k._user_token = NoneStr
    THEN [k EXCEPT !.answer = FALSE]
    ELSE IF k.time >= k._user_token_expiry
    THEN [_refresh_user_token(k, response, saved) EXCEPT
              !.answer = _refresh_user_token(k, response, saved)._user_token # NoneStr]
    ELSE [k EXCEPT !.answer = TRUE]

\* exchange_auth_code; a response that is not ok raises before any assignment
exchange_auth_code(k, response, saved) ==
    IF response.ok
    THEN _save_tokens_to_db(
             [k EXCEPT !._user_token = response.access_token,
                       !._user_refresh_token = response.refresh_token,
                       !._user_token_expiry = k.time + Lifetime], saved)
    ELSE k

TokenResponses ==
    { [ok |-> TRUE, access_token |-> a, refresh_token |-> r] :
          a \in {"access1", "access2"}, r \in {NoneStr, "refresh1", "refresh2"} }
    \cup {TokenFailure}

NoSearch ==
    [ term |-> <<>>, brand |-> <<>>, location_id |-> NoneStr, results |-> <<>>,
      location_filtered |-> FALSE, requests |-> <<>> ]

NewService ==
    [ _user_token |-> NoneStr, _user_refresh_token |-> NoneStr, _user_token_expiry |-> 0,
      token_row |-> NoTokenRow, time |-> 0, op |-> "import", attempted |-> FALSE,
      answer |-> FALSE, saved |-> FALSE, search |-> NoSearch ]

servicevars ==
    <<db, mem, del, committed, result, last, cart, database, invocation, inbox, said, loop>>

\* one operation of the client: op names it, saved whether the database took
\* the write it made
Operation(op, k, saved) ==
    /\ kroger_service' = [k EXCEPT !.op = op, !.saved = saved]
    /\ UNCHANGED servicevars

Called == [kroger_service EXCEPT !.attempted = FALSE]

\* the OAuth callback hands the authorization code to the client
ExchangeAuthCode == \E response \in TokenResponses, saved \in BOOLEAN :
    /\ Operation("exchange_auth_code", exchange_auth_code(Called, response, saved),
                 response.ok /\ saved)

IsUserAuthenticated == \E response \in TokenResponses, saved \in BOOLEAN :
    /\ Operation("is_user_authenticated", is_user_authenticated(Called, response, saved),
                 saved /\ is_user_authenticated(Called, response, saved).attempted /\ response.ok)

\* a cart operation or a purchase history request asks for the user token
GetUserToken == \E response \in TokenResponses, saved \in BOOLEAN :
    /\ Operation("_get_user_token", _get_user_token(Called, response, saved),
                 saved /\ _get_user_token(Called, response, saved).attempted /\ response.ok)

\* the process ends and a new one imports the module: the globals start empty
\* and the row is loaded
Restart == \E ok \in BOOLEAN :
    /\ Operation("restart",
                 _load_tokens_from_db(
                     [Called EXCEPT !._user_token = NoneStr, !._user_refresh_token = NoneStr,
                                    !._user_token_expiry = 0], ok),
                 ok)

\* time passes
Tick ==
    /\ kroger_service.time < MaxTime
    /\ Operation("tick", [Called EXCEPT !.time = @ + 1], FALSE)

\* inputs of the search
Organic      == <<"O", "r", "g", "a", "n", "i", "c">>
OrganicLower == <<"o", "r", "g", "a", "n", "i", "c">>
OrganicMilk  == OrganicLower \o <<" ">> \o Milk
SearchTerms  == {Milk, Organic, OrganicLower, OrganicMilk, <<" ">> \o Milk}
Products     == {<<>>, <<"upc1">>, <<"upc2">>, <<"upc2", "upc1">>}

SearchProducts ==
    \E term \in SearchTerms, brand \in {<<>>, <<"A">>}, location_id \in {NoneStr, "loc1"},
       answers \in Products \X Products \X Products :
        /\ kroger_service' =
               [kroger_service EXCEPT
                    !.op = "search_products",
                    !.search = [ term |-> term, brand |-> brand, location_id |-> location_id,
                                 results |-> search_products(term, brand, location_id, answers).results,
                                 location_filtered |->
                                     search_products(term, brand, location_id, answers).location_filtered,
                                 requests |->
                                     search_products(term, brand, location_id, answers).requests ]]
        /\ UNCHANGED servicevars

NextTokens ==
    \/ ExchangeAuthCode
    \/ IsUserAuthenticated
    \/ GetUserToken
    \/ Restart
    \/ Tick

-----------------------------------------------------------------------------
(* The initial state *)

NoResult == [none |-> TRUE]

Init ==
    /\ db = EmptyStore
    /\ mem = EmptyStore
    /\ del = NoDeletes
    /\ committed = EmptyStore
    /\ result = NoResult
    /\ last = [tool |-> "none", params |-> NoParams, kroger |-> NoKroger]
    /\ cart = <<>>
    /\ database = [lists |-> <<>>, conversations |-> <<>>]
    /\ invocation = [w \in Workers |-> Idle]
    /\ inbox = <<>>
    /\ said = <<>>
    /\ loop = NewLoop
    /\ kroger_service = NewService

-----------------------------------------------------------------------------
(* Specifications: the tools of one area each, with the end of a message *)

\* the specifications with many tools explore at most MaxShortLog logged calls
ShortLog == Len(mem'.events) <= MaxShortLog

NextList ==
    \/ AddItem /\ ShortLog
    \/ RemoveItem /\ ShortLog
    \/ UpdateItem /\ ShortLog
    \/ ClearList /\ ShortLog
    \/ CheckOffItem /\ ShortLog
    \/ FinalizeOrder /\ ShortLog
    \/ GenerateListFromMeals /\ ShortLog
    \/ AddToKrogerCart /\ ShortLog
    \/ ConfirmMilk /\ ShortLog
    \/ AddRecipe /\ ShortLog
    \/ AddMeal /\ ShortLog
    \/ Commit

SpecList == Init /\ [][NextList]_vars

\* the shopping list after it has been archived: up to MaxEvents logged calls
NextArchive ==
    \/ AddItem
    \/ RemoveItem
    \/ ClearList
    \/ CheckOffItem
    \/ FinalizeOrder
    \/ AddToKrogerCart
    \/ ConfirmMilk
    \/ RemovePantryItem
    \/ Commit

SpecArchive == Init /\ [][NextArchive]_vars

NextIngredients ==
    \/ AddItemAnyName /\ ShortLog
    \/ UpdateIngredient /\ ShortLog
    \/ AddRecipe /\ ShortLog
    \/ AddPantryMilk /\ ShortLog
    \/ ConfirmKrogerProduct /\ ShortLog
    \/ SetPurchaseSource /\ ShortLog
    \/ SetIngredientAlias /\ ShortLog
    \/ Commit

SpecIngredients == Init /\ [][NextIngredients]_vars

\* searching the catalog and storing a product
NextResolve ==
    \/ ResolveKrogerProduct /\ ShortLog
    \/ ConfirmKrogerProduct /\ ShortLog
    \/ UpdateIngredient /\ ShortLog
    \/ Commit

SpecResolve == Init /\ [][NextResolve]_vars

\* notes written before and after their recipe
NextNotes ==
    \/ AddRecipeNote
    \/ AddRecipeNoteAnyName
    \/ AddRecipe
    \/ AddRecipeOfMilk
    \/ Commit

SpecNotes == Init /\ [][NextNotes]_vars

NextRoundTrip ==
    \/ AddItem
    \/ ConfirmKrogerProduct
    \/ UpdateIngredient
    \/ GetIngredients
    \/ GetShoppingList
    \/ Commit

SpecRoundTrip == Init /\ [][NextRoundTrip]_vars

NextPantry ==
    \/ AddPantryItem
    \/ AddPantryBatch
    \/ RemovePantryItem
    \/ Commit

SpecPantry == Init /\ [][NextPantry]_vars

NextMeals ==
    \/ AddRecipe
    \/ AddRecipeOfMilk
    \/ AddMeal
    \/ AddPantryMilk
    \/ AddItem
    \/ GenerateListFromMeals
    \/ Commit

SpecMeals == Init /\ [][NextMeals]_vars

\* the life of the meal plans
NextPlans ==
    \/ AddMeal
    \/ RemoveMeal
    \/ CompleteMealPlan
    \/ AddRecipe
    \/ GetRecipes
    \/ Commit

SpecPlans == Init /\ [][NextPlans]_vars

NextDispatch ==
    \/ UnknownTool
    \/ AddItem
    \/ AddRecipe
    \/ AddRecipeNote
    \/ GetRecipes
    \/ GetShoppingList
    \/ Commit

SpecDispatch == Init /\ [][NextDispatch]_vars

\* the control loop of one message; a loop that can take a step takes one
SpecLoop == Init /\ [][NextLoop]_vars /\ WF_vars(NextLoop)

\* the message pipeline, one message after the other
NextMessages ==
    \/ Ignore
    \/ Receive(1)
    \/ Begin(1)
    \/ BeginFails(1)
    \/ ApiFails(1)
    \/ Respond(1)
    \/ RespondCommitFails(1)
    \/ Log(1)
    \/ LogFails(1)
    \/ Exit(1)
    \/ ExitFails(1)

SpecMessages == Init /\ [][NextMessages]_vars

\* the message pipeline with two invocations interleaved
NextConcurrent ==
    \/ \E w \in Workers : Receive(w)
    \/ \E w \in Workers : Begin(w)
    \/ \E w \in Workers : ApiFails(w)
    \/ \E w \in Workers : RespondBriefly(w)
    \/ \E w \in Workers : Log(w)
    \/ \E w \in Workers : Exit(w)

SpecConcurrent == Init /\ [][NextConcurrent]_vars

\* the retailer client's tokens over restarts and refreshes
SpecTokens == Init /\ [][NextTokens]_vars

\* the retailer client's product search
NextSearch ==
    \/ SearchProducts

SpecSearch == Init /\ [][NextSearch]_vars

Next ==
    \/ NextList
    \/ NextIngredients
    \/ NextRoundTrip
    \/ NextPantry
    \/ NextMeals
    \/ NextDispatch
    \/ NextPlans
    \/ RemovePantryItem
    \/ NextMessages
    \/ NextConcurrent
    \/ NextLoop
    \/ NextTokens
    \/ NextSearch
    \/ NextResolve
    \/ NextNotes
    \/ NextArchive

Spec == Init /\ [][Next]_vars

-----------------------------------------------------------------------------
(* Vocabulary of the properties *)

\* the session a step leaves
SessionNext == [db |-> db', mem |-> mem', del |-> del']

\* the rows the tool calls so far amount to, before and after a step
Rows == Logical(Session)
RowsNext == Logical(SessionNext)

Failed(r) == "error" \in DOMAIN r
Succeeded(r) == "success" \in DOMAIN r

\* the step is a call of the tool
Calls(tool_name) == last'.tool = tool_name

\* the item rows of a list whose ingredient is to be bought from the retailer
\* but has no product id
Unresolved(store, list_id) ==
    { i \in ItemsOf(store, list_id) :
        /\ store.ingredients[store.items[i].ingredient_id].purchase_source = NoneStr
        /\ store.ingredients[store.items[i].ingredient_id].kroger_product_id = NoneStr }

\* the names the sequence lists
Range(seq) == { seq[k] : k \in 1..Len(seq) }

-----------------------------------------------------------------------------
(* The shopping list: C1 to C5, under SpecList *)

\* C1: after any sequence of list tool calls through execute_tool, at most one
\* ShoppingList row has status active - in the rows the queries see, in the
\* objects of the session, and in what has been committed.
C1_AtMostOneActiveList ==
    /\ Cardinality(ActiveLists(db)) <= 1
    /\ Cardinality(ActiveLists(mem)) <= 1
    /\ Cardinality(ActiveLists(committed)) <= 1

\* a second list exists, created by a finalize_order that archived the first
C1_Witness ==
    /\ last.tool = "finalize_order"
    /\ Succeeded(result)
    /\ Cardinality(DOMAIN db.lists) = 2
    /\ Cardinality(ActiveLists(db)) = 1

\* C2: finalize_order on an active list with at least one item marks that list
\* ordered with an ordered-at timestamp and creates a new empty active list:
\* afterwards the old list is ordered, exactly one list is active, and the
\* active list has zero items.
C2_FinalizeArchives ==
    [][ \A l \in ActiveLists(Rows) :
          (Calls("finalize_order") /\ ItemsOf(Rows, l) # {})
          => /\ Succeeded(result')
             /\ RowsNext.lists[l].status = "ordered"
             /\ RowsNext.lists[l].ordered_at # NoneStr
             /\ Cardinality(ActiveLists(RowsNext)) = 1
             /\ \A n \in ActiveLists(RowsNext) : ItemsOf(RowsNext, n) = {} ]_vars

\* finalize_order has archived a list that had an item
C2_Witness ==
    /\ last.tool = "finalize_order"
    /\ Succeeded(result)
    /\ \E l \in DOMAIN db.lists :
          db.lists[l].status = "ordered" /\ ItemsOf(db, l) # {}

\* C3: finalize_order on a list with zero items returns an error result, does
\* not create a new active list, and does not change the status of the
\* existing list.
C3_FinalizeEmptyRejected ==
    [][ \A l \in ActiveLists(Rows) :
          (Calls("finalize_order") /\ ItemsOf(Rows, l) = {})
          => /\ Failed(result')
             /\ DOMAIN RowsNext.lists = DOMAIN Rows.lists
             /\ RowsNext.lists[l].status = "active" ]_vars

\* finalize_order has been refused on a list without items
C3_Witness ==
    /\ last.tool = "finalize_order"
    /\ Failed(result)
    /\ \E l \in ActiveLists(db) : ItemsOf(Logical(Session), l) = {}

\* C4: add_to_kroger_cart, with the retailer configured and the user
\* authenticated, is all-or-nothing: if an item of the active list needs a
\* product id and has none, the tool returns the unresolved-items error listing
\* exactly the names of those ingredients, submits nothing to the cart, and
\* leaves the list active.
C4_CartAllOrNothing ==
    [][ \A l \in ActiveLists(Rows) :
          ( /\ Calls("add_to_kroger_cart")
            /\ last'.kroger.configured /\ last'.kroger.authenticated
            /\ Unresolved(Rows, l) # {} )
          => /\ Failed(result')
             /\ result'.error = "unresolved_items"
             /\ Range(result'.unresolved) =
                   { Rows.ingredients[Rows.items[i].ingredient_id].name :
                       i \in Unresolved(Rows, l) }
             /\ cart' = cart
             /\ RowsNext.lists[l].status = "active" ]_vars

\* the unresolved-items error has been returned
C4_Witness ==
    /\ last.tool = "add_to_kroger_cart"
    /\ Failed(result)
    /\ result.error = "unresolved_items"
    /\ cart = <<>>

\* C5: when add_to_kroger_cart succeeds the active list is archived as
\* finalize_order archives it: the list is ordered with an ordered-at
\* timestamp, and a new empty active list exists afterwards.
C5_CartArchivesLikeFinalize ==
    [][ \A l \in ActiveLists(Rows) :
          (Calls("add_to_kroger_cart") /\ Succeeded(result'))
          => /\ RowsNext.lists[l].status = "ordered"
             /\ RowsNext.lists[l].ordered_at # NoneStr
             /\ \E n \in ActiveLists(RowsNext) : ItemsOf(RowsNext, n) = {} ]_vars

\* add_to_kroger_cart has succeeded and the list is ordered
C5_Witness ==
    /\ last.tool = "add_to_kroger_cart"
    /\ Succeeded(result)
    /\ cart # <<>>
    /\ \E l \in DOMAIN mem.lists : mem.lists[l].status = "ordered"

-----------------------------------------------------------------------------
(* Ingredients: C6 under SpecIngredients, C8 under SpecRoundTrip *)

\* what the raw names of MilkNames come to once lowercased, stripped of
\* punctuation and trimmed
MilkNormal == <<"m", "i", "l", "k">>

\* the pairs <<raw name, ingredient id>> the last call resolved, for the calls
\* that report the record they resolved
Resolved ==
    IF ~Succeeded(result) THEN {}
    ELSE CASE last.tool \in {"add_item", "update_ingredient"} ->
                  { <<last.params.name, result.ingredient_id>> }
           [] last.tool = "confirm_kroger_product" ->
                  { <<last.params.ingredient_name, result.ingredient_id>> }
           [] last.tool = "add_pantry_item" ->
                  { <<last.params.item_name, result.ingredient_id>> }
           [] last.tool = "set_purchase_source" ->
                  { <<last.params.ingredient_name, i>> :
                      i \in { j \in DOMAIN mem.ingredients :
                                mem.ingredients[j].name = result.ingredient_name } }
           [] last.tool = "add_recipe" ->
                  { <<last.params.ingredients[k], result.ingredients[k]>> :
                      k \in 1..Len(result.ingredients) }
           [] OTHER -> {}

ReadPrice(row) ==
    IF "last_known_price" \in DOMAIN row THEN row.last_known_price
    ELSE IF "price" \in DOMAIN row THEN row.price
    ELSE NoneInt

\* C8: after confirm_kroger_product stores a product mapping for an ingredient,
\* reading the ingredient back - get_ingredients without the has_kroger_id
\* filter, or get_shopping_list when the ingredient is on the list - returns the
\* product id, brand and price that the confirmation stored.
C8_ConfirmRoundTrip ==
    [][ (last.tool = "confirm_kroger_product" /\ Succeeded(result))
        => /\ (Calls("get_ingredients") /\ last'.params.has_kroger_id = NoneStr)
              => \E k \in 1..Len(result'.ingredients) :
                    /\ result'.ingredients[k].id = result.ingredient_id
                    /\ result'.ingredients[k].kroger_product_id = result.kroger_product_id
                    /\ result'.ingredients[k].preferred_brand = result.brand
                    /\ ReadPrice(result'.ingredients[k]) = result.price
           /\ Calls("get_shopping_list")
              => \A k \in 1..Len(result'.items) :
                    result'.items[k].name = result.name
                    => /\ result'.items[k].kroger_product_id = result.kroger_product_id
                       /\ result'.items[k].preferred_brand = result.brand
                       /\ ReadPrice(result'.items[k]) = result.price ]_vars

\* the ingredient is read back with the product id of a confirmation that
\* stored a price
C8_Witness ==
    /\ last.tool = "get_ingredients"
    /\ \E k \in 1..Len(result.ingredients) :
          /\ result.ingredients[k].kroger_product_id = "upc1"
          /\ mem.ingredients[result.ingredients[k].id].last_known_price = 3

-----------------------------------------------------------------------------
(* The pantry: C7 under SpecPantry *)

\* the PantryItem rows for a name, once the session's work is written
PantryRows(item_name) ==
    { p \in DOMAIN Rows.pantry : ILike(Rows.pantry[p].item_name, Strip(item_name)) }

\* the quantity the last entry of the batch gives for the name
RECURSIVE LatestQuantity(_, _)
LatestQuantity(items, item_name) ==
    IF ILike(Strip(items[Len(items)].item_name), Strip(item_name))
    THEN items[Len(items)].quantity
    ELSE LatestQuantity(SubSeq(items, 1, Len(items) - 1), item_name)

\* C7: after add_pantry_item, and after add_pantry_batch for each of its names,
\* exactly one PantryItem row exists for the name and it holds the latest
\* quantity given, however many times the name was added before or in the
\* same batch.
C7_PantryUpsert ==
    /\ (last.tool = "add_pantry_item" /\ Succeeded(result))
       => /\ Cardinality(PantryRows(last.params.item_name)) = 1
          /\ \A p \in PantryRows(last.params.item_name) :
                Rows.pantry[p].quantity = last.params.quantity
    /\ (last.tool = "add_pantry_batch" /\ Succeeded(result))
       => \A k \in 1..Len(last.params.items) :
             /\ Cardinality(PantryRows(last.params.items[k].item_name)) = 1
             /\ \A p \in PantryRows(last.params.items[k].item_name) :
                   Rows.pantry[p].quantity =
                       LatestQuantity(last.params.items, last.params.items[k].item_name)

\* a second add_pantry_item for a name has updated the row of the first
C7_Witness ==
    /\ last.tool = "add_pantry_item"
    /\ Succeeded(result)
    /\ result.action = "updated"
    /\ last.params.quantity = 2
    /\ Cardinality(PantryRows(last.params.item_name)) = 1

-----------------------------------------------------------------------------
(* The meal plan: C9 under SpecMeals *)

\* the ingredients with an item on an active list
OnList(store) ==
    { store.items[i].ingredient_id :
        i \in { j \in DOMAIN store.items :
                  store.items[j].shopping_list_id \in ActiveLists(store) } }

\* the ingredients whose normalized name is the normalized name of a pantry item
InPantry(store) ==
    { i \in DOMAIN store.ingredients :
        \E p \in DOMAIN store.pantry :
           normalize_ingredient_name(store.pantry[p].item_name)
               = store.ingredients[i].normalized_name }

\* the number of items an ingredient has on the active lists
ItemCount(store, ingredient_id) ==
    Cardinality({ i \in DOMAIN store.items :
                    /\ store.items[i].ingredient_id = ingredient_id
                    /\ store.items[i].shopping_list_id \in ActiveLists(store) })

\* the ingredients of the recipe-ingredient links of the planned meals
Visited ==
    LET plans == PlanningPlans(Rows)
        links == IF plans = {} THEN <<>>
                 ELSE MealLinks([db |-> Rows, mem |-> Rows, del |-> NoDeletes],
                                Rows.plans[Latest(plans)].meals)
    IN  [k \in 1..Len(links) |-> Rows.links[links[k]].ingredient_id]

\* C9: a successful generate_list_from_meals gives no item to an ingredient
\* that is on the active list or in the pantry, gives every other ingredient of
\* the visited recipe links one item, and reports counts that add up to the
\* number of links visited.
C9_GenerateSkipsPresent ==
    [][ (Calls("generate_list_from_meals") /\ Succeeded(result'))
        => /\ \A i \in OnList(Rows) \cup InPantry(Rows) :
                 ItemCount(RowsNext, i) = ItemCount(Rows, i)
           /\ \A i \in Range(Visited) \ (OnList(Rows) \cup InPantry(Rows)) :
                 ItemCount(RowsNext, i) = 1
           /\ result'.items_added + Len(result'.skipped_existing)
                 + Len(result'.skipped_pantry) = Len(Visited) ]_vars

\* generate_list_from_meals has added an item and skipped a pantry ingredient
C9_Witness ==
    /\ last.tool = "generate_list_from_meals"
    /\ Succeeded(result)
    /\ result.items_added = 1
    /\ Len(result.skipped_pantry) = 1

-----------------------------------------------------------------------------
(* Dispatch: C10 under SpecDispatch *)

\* C10: execute_tool always returns a result and never the handler's
\* exception; an unknown tool name yields a structured error result; and the
\* structured error result of a handler that raised leaves the session rolled
\* back to the last commit.
C10_DispatchNeverRaises ==
    /\ "raised" \notin DOMAIN result
    /\ last.tool \notin ToolNames \cup {"none", "commit"}
       => Failed(result) /\ "TOOL_ERROR" \in DOMAIN result
    /\ (last.tool \in ToolNames /\ "TOOL_ERROR" \in DOMAIN result)
       => db = committed /\ mem = committed /\ del = NoDeletes

\* get_recipes has raised on a recipe with a note, and the rollback has
\* removed the uncommitted note
C10_Witness ==
    /\ last.tool = "get_recipes"
    /\ "TOOL_ERROR" \in DOMAIN result
    /\ db.notes = <<>>

-----------------------------------------------------------------------------
(* Failures inside a transaction: C11 under SpecDispatch *)

\* every row of `old` is a row of `new`, unchanged
Preserved(old, new) ==
    \A t \in DOMAIN old :
        \A id \in DOMAIN old[t] : id \in DOMAIN new[t] /\ new[t][id] = old[t][id]

\* C11: within one transaction a tool call that fails undoes no earlier
\* successful call: every row the transaction would have committed before the
\* failing call is still among the rows it would commit after it.
C11_FailureKeepsEarlierWrites ==
    [][ (last'.tool # "commit" /\ Failed(result')) => Preserved(Rows, RowsNext) ]_vars

\* a call has failed while the transaction held an uncommitted recipe, and the
\* recipe is still there
C11_Witness ==
    /\ last.tool = "order_pizza"
    /\ Failed(result)
    /\ DOMAIN Rows.recipes # {}
    /\ DOMAIN committed.recipes = {}

-----------------------------------------------------------------------------
(* The actions of one model response: C12 under SpecMessages *)

\* process_claude_response has just run the actions of worker w's response
RanActions(w) ==
    /\ invocation[w].pc = "respond"
    /\ invocation'[w].pc = "log"
    /\ invocation'[w].raw.block = "parsed"

Requested(w) == invocation'[w].raw.actions

\* the action raises: an add_item or remove_item without a name
Throws(action) ==
    /\ action.action_type \in {"add_item", "remove_item"}
    /\ \A k \in 1..Len(action.data.name) : action.data.name[k] = " "

\* the names, as stored, of the add_item actions of a plan that do not raise
RECURSIVE AddedNames(_)
AddedNames(plan) ==
    IF plan = <<>> THEN <<>>
    ELSE IF Throws(Head(plan)) THEN AddedNames(Tail(plan))
    ELSE <<Strip(Head(plan).data.name)>> \o AddedNames(Tail(plan))

\* the items of the active list as worker w's transaction sees them
ActiveItems(w) ==
    LET Items(lists) == lists[First(ActiveLists([lists |-> lists]))].items
    IN  Items(Visible(invocation[w].t, database))

ActiveItemsNext(w) ==
    LET Items(lists) == lists[First(ActiveLists([lists |-> lists]))].items
    IN  Items(Visible(invocation'[w].t, database'))

-----------------------------------------------------------------------------
(* Read tools: C13 under SpecDispatch *)

ReadTools ==
    { "get_shopping_list", "get_ingredients", "get_recipes", "get_meal_plan",
      "get_pantry", "get_preferences", "get_recipe_notes", "get_order_history",
      "get_non_kroger_items" }

\* C13: dispatching a read tool leaves every persisted record and every
\* pending write of the transaction unchanged.
C13_ReadsChangeNothing ==
    [][ last'.tool \in ReadTools =>
          /\ committed' = committed
          /\ SessionNext = Session
          /\ cart' = cart ]_vars

\* a read tool has been dispatched on a transaction with an uncommitted item
\* and has returned its rows
C13_Witness ==
    /\ last.tool = "get_shopping_list"
    /\ ~Failed(result)
    /\ DOMAIN Rows.items # {}
    /\ DOMAIN committed.items = {}

-----------------------------------------------------------------------------
(* Event logging: C14 under SpecIngredients *)

WriteTools == ToolNames \ ReadTools

\* C14: a write tool that returns a success result has appended one EventLog
\* row, and a write tool that returns an error result has appended none.
C14_SuccessIsLogged ==
    [][ last'.tool \in WriteTools =>
          /\ Succeeded(result') =>
                 /\ Len(RowsNext.events) = Len(Rows.events) + 1
                 /\ SubSeq(RowsNext.events, 1, Len(Rows.events)) = Rows.events
          /\ Failed(result') => Len(RowsNext.events) <= Len(Rows.events) ]_vars

\* a write tool has returned success and the log ends with its row
C14_Witness ==
    /\ last.tool = "update_ingredient"
    /\ Succeeded(result)
    /\ Len(Rows.events) > 0
    /\ Rows.events[Len(Rows.events)] = "update_ingredient"

-----------------------------------------------------------------------------
(* The event log: C15 under SpecDispatch *)

\* the log `new` starts with the rows of `old`, unchanged
Extends(new, old) ==
    /\ Len(old) <= Len(new)
    /\ SubSeq(new, 1, Len(old)) = old

\* C15: the EventLog is append-only: no step of a sequence of tool calls
\* modifies or removes a row the log already has, so the log only grows.
C15_EventLogAppendOnly ==
    [][ Extends(RowsNext.events, Rows.events) ]_vars

\* a committed event row followed by a row appended by a later call
C15_Witness ==
    /\ Len(committed.events) > 0
    /\ Len(Rows.events) > Len(committed.events)
    /\ Extends(Rows.events, committed.events)

-----------------------------------------------------------------------------
(* Replies: C16 under SpecMessages *)

\* the replies posted for message m
Replies(m) == { k \in 1..Len(said) : said[k].message = m }

\* handle_message has returned for message m
Handled(m) == \A w \in Workers : invocation[w].pc = "idle" \/ invocation[w].message # m

KnownUserInChannel(event) ==
    /\ event.channel = "grocery"
    /\ event.user \in {"Erich", "L"}

\* C16 as stated: every handled message from a known user in the configured
\* channel has exactly one reply.
C16_ExactlyOneReply ==
    \A m \in 1..Len(inbox) :
        (KnownUserInChannel(inbox[m]) /\ Handled(m)) => Cardinality(Replies(m)) = 1

\* C16, amended: a message that handle_message does not drop (no bot message,
\* configured channel, known user, text not empty) has no reply while it is
\* processed and exactly one once it is handled, whatever the model call, the
\* actions, the conversation logging and the commits did; a dropped message
\* has none.
C16_OneReplyPerAcceptedMessage ==
    \A m \in 1..Len(inbox) :
        Cardinality(Replies(m)) =
            IF Accepted(inbox[m]) /\ Handled(m) THEN 1 ELSE 0

\* an accepted message whose conversation logging failed and whose final
\* commit failed has been answered, once, with handle_message's apology
C16_Witness ==
    \E m \in 1..Len(inbox) :
        /\ Accepted(inbox[m])
        /\ Handled(m)
        /\ \A k \in 1..Len(database.conversations) : database.conversations[k].message # m
        /\ \E k \in Replies(m) : said[k].text = HandlerApology
        /\ Cardinality(Replies(m)) = 1

-----------------------------------------------------------------------------
(* A failing model call: C17 under SpecMessages *)

\* the Conversation rows stored for message m
ConversationsOf(m) ==
    { k \in 1..Len(database.conversations) : database.conversations[k].message = m }

\* C17: when the model endpoint call fails while a message is processed, the
\* reply is the apology text and the Conversation row stored for the message
\* has status API-error (the reply and the row being those of a database that
\* accepts the commits of process_message; a row that is stored has that
\* status in any case).
C17_ApiErrorApology ==
    \A w \in Workers :
        invocation[w].status = "api_error" =>
            /\ invocation[w].response_text = ApiApology
            /\ \A k \in ConversationsOf(invocation[w].message) :
                   /\ database.conversations[k].status = "api_error"
                   /\ database.conversations[k].response = ApiApology
            /\ (invocation[w].pc \in {"exit", "idle"} /\ "log" \notin invocation[w].refused)
                   => Cardinality(ConversationsOf(invocation[w].message)) = 1
            /\ (invocation[w].pc = "idle" /\ "exit" \notin invocation[w].refused)
                   => { said[k].text : k \in Replies(invocation[w].message) } = {ApiApology}

\* the model call has failed for a message, the message has been answered
\* with the apology and its Conversation row says API-error
C17_Witness ==
    \E w \in Workers :
        /\ invocation[w].status = "api_error"
        /\ invocation[w].pc = "idle"
        /\ \E k \in Replies(invocation[w].message) : said[k].text = ApiApology
        /\ \E k \in ConversationsOf(invocation[w].message) :
               database.conversations[k].status = "api_error"

-----------------------------------------------------------------------------
(* Meal plans: C18 under SpecPlans *)

WeekStarts(store) == { store.plans[p].week_start_date : p \in DOMAIN store.plans }

\* C18: after any sequence of add_meal, remove_meal and complete_meal_plan
\* calls at most one MealPlan has status planning, and no two MealPlan rows
\* share a week-start date (a plan is only ever created by add_meal finding
\* none in planning).
C18_OnePlanningPlan ==
    /\ Cardinality(PlanningPlans(Rows)) <= 1
    /\ Cardinality(PlanningPlans(db)) <= 1
    /\ Cardinality(WeekStarts(Rows)) = Cardinality(DOMAIN Rows.plans)

\* a completed plan and, created after it, a plan in planning with a later date
C18_Witness ==
    \E p, q \in DOMAIN Rows.plans :
        /\ Rows.plans[p].status = "completed"
        /\ Rows.plans[q].status = "planning"
        /\ Rows.plans[q].week_start_date > Rows.plans[p].week_start_date

-----------------------------------------------------------------------------
(* The turn bound: C19 under SpecLoop *)

\* C19: the control loop makes at most max_tool_turns + 1 model calls, and
\* with a model that requests a tool call every time it terminates, after
\* max_tool_turns + 1 model calls, with a non-empty response.
C19_TurnBound ==
    /\ [](loop.calls <= max_tool_turns + 1)
    /\ []((loop.pc = "done" /\ loop.only_tools) =>
             /\ loop.calls = max_tool_turns + 1
             /\ loop.response \notin {NoneStr, ""})
    /\ ([]loop.only_tools) => <>(loop.pc = "done")

\* the loop has ended after max_tool_turns + 1 model calls that all asked for
\* tools, and returns the canned apology
C19_Witness ==
    /\ loop.pc = "done"
    /\ loop.only_tools
    /\ loop.calls = max_tool_turns + 1
    /\ loop.noted
    /\ loop.response = CannedApology

-----------------------------------------------------------------------------
(* Two invocations at once: C20 under SpecConcurrent *)

\* the active lists worker w's transaction has created and not yet committed
CreatedActive(w) ==
    { id \in DOMAIN invocation[w].t.own \ DOMAIN database.lists :
        /\ invocation[w].t.own[id].status = "active"
        /\ <<id, "status">> \notin invocation[w].t.dirty }

\* worker w's session commits in this step
Commits(w) ==
    /\ invocation[w].t # NewSession
    /\ invocation'[w].t = NewSession
    /\ invocation'[w].refused = invocation[w].refused

-----------------------------------------------------------------------------
(* C21 *)

\* the operations that write the token row when they obtain new tokens
TokenWriters == {"exchange_auth_code", "is_user_authenticated", "_get_user_token"}

\* the operation just made obtained tokens and the database took the write
Wrote(k) == k.op \in TokenWriters /\ k.saved

\* a restart whose load the database answered, with the row holding what the
\* process held when it ended
RestartOver(k, k2) ==
    /\ k2.op = "restart" /\ k2.saved
    /\ k.token_row.present /\ RowTokens(k) = Globals(k)

SameAnswers(k, k2) ==
    \A response \in TokenResponses, saved \in BOOLEAN :
        is_user_authenticated(k2, response, saved).answer
            = is_user_authenticated(k, response, saved).answer

-----------------------------------------------------------------------------
(* C22 *)

\* the requests of the last search, and what each is
Requests == kroger_service.search.requests
SentTerm(term) ==
    IF kroger_service.search.brand # <<>>
    THEN kroger_service.search.brand \o <<" ">> \o term
    ELSE term
Located(q) == q.location_id # NoneStr /\ q.term = SentTerm(kroger_service.search.term)
Plain(q)   == q.location_id = NoneStr /\ q.term = SentTerm(kroger_service.search.term)
Simple(q)  ==
    q.location_id = NoneStr /\ q.term = SentTerm(_simplify_search_term(kroger_service.search.term))

\* the stage of the i-th request, counted as if the located stage had run
Stage(i) == IF Located(Requests[1]) THEN i ELSE i + 1

\* C22: the requests of a search are stages in the order located, plain,
\* simplified (a stage may be left out, none comes twice or out of order);
\* every request but the last returned nothing; and what is returned is what
\* the last request returned, flagged as location-filtered exactly when that
\* request carried the filter and found candidates
C22_GraduatedFallback ==
    kroger_service.op = "search_products" =>
        /\ Len(Requests) \in 1..3
        /\ \A i \in 1..Len(Requests) :
              /\ Stage(i) = 1 => Located(Requests[i])
              /\ Stage(i) = 2 => Plain(Requests[i])
              /\ Stage(i) = 3 => Simple(Requests[i])
              /\ Stage(i) <= 3
              /\ i < Len(Requests) => Requests[i].products = <<>>
        /\ kroger_service.search.results = Requests[Len(Requests)].products
        /\ kroger_service.search.location_filtered
               = (Located(Requests[Len(Requests)]) /\ kroger_service.search.results # <<>>)

\* the first two stages found nothing and the simplified term did
C22_Witness ==
    /\ kroger_service.op = "search_products"
    /\ Len(Requests) = 3
    /\ Requests[1].products = <<>> /\ Requests[2].products = <<>>
    /\ Requests[3].term # Requests[2].term
    /\ kroger_service.search.results = <<"upc1">>

-----------------------------------------------------------------------------
(* C23 *)

\* the items of list l that the argument of the call being made matches, in
\* the rows the calls so far amount to
Matched(l) ==
    { i \in ItemsOf(Rows, l) :
        Contains(Rows.ingredients[Rows.items[i].ingredient_id].normalized_name,
                 normalize_ingredient_name(Strip(last'.params.name))) }

\* every item row but `id` is after the step what it was before
OthersUnchanged(id) ==
    \A i \in DOMAIN Rows.items \ {id} :
        i \in DOMAIN RowsNext.items /\ RowsNext.items[i] = Rows.items[i]

\* C23: remove_item and check_off_item act on the first item of the active
\* list whose ingredient's normalized name contains the normalized argument:
\* on a match the call succeeds, exactly that item is removed (or has its
\* checked-off flag toggled) and every other item is unchanged; when nothing
\* matches the result is the not-found error and no exception leaves the tool.
C23_FirstMatchOnly ==
    [][ (Calls("remove_item") \/ Calls("check_off_item"))
        => /\ "raised" \notin DOMAIN result'
           /\ (\A l \in ActiveLists(Rows) : Matched(l) = {})
                 => /\ Failed(result') /\ result'.error = "not_found"
                    /\ RowsNext.items = Rows.items
           /\ \A l \in ActiveLists(Rows) :
                 Matched(l) # {}
                 => /\ Succeeded(result')
                    /\ OthersUnchanged(First(Matched(l)))
                    /\ Calls("remove_item")
                         => DOMAIN RowsNext.items = DOMAIN Rows.items \ {First(Matched(l))}
                    /\ Calls("check_off_item")
                         => /\ DOMAIN RowsNext.items = DOMAIN Rows.items
                            /\ RowsNext.items[First(Matched(l))] =
                                  [Rows.items[First(Matched(l))] EXCEPT !.checked_off = ~@] ]_vars

\* remove_item has answered not-found while the list holds a matching item
C23_Witness ==
    /\ last.tool = "remove_item"
    /\ Failed(result) /\ result.error = "not_found"
    /\ \E l \in ActiveLists(Rows) :
          \E i \in ItemsOf(Rows, l) :
              Contains(Rows.ingredients[Rows.items[i].ingredient_id].normalized_name,
                       normalize_ingredient_name(Strip(last.params.name)))

-----------------------------------------------------------------------------
(* C24 *)

\* the session but for its event log
WithoutEvents(s) ==
    [ db |-> [s.db EXCEPT !.events = <<>>], mem |-> [s.mem EXCEPT !.events = <<>>],
      del |-> s.del ]

\* the step writes column `field` of an ingredient: it changes it on a row
\* there was, or sets it on a row it creates
WritesIngredient(field) ==
    \E i \in DOMAIN mem'.ingredients :
        IF i \in DOMAIN mem.ingredients
        THEN mem'.ingredients[i][field] # mem.ingredients[i][field]
        ELSE mem'.ingredients[i][field] # NewIngredient(<<>>, <<>>)[field]

\* C24 as stated: resolve_kroger_product creates and changes no record of any
\* kind, and only confirm_kroger_product writes a product id, brand, size or
\* price onto an Ingredient
C24_ResolvePersistsNothing ==
    [][ /\ Calls("resolve_kroger_product") => SessionNext = Session
        /\ \A field \in {"kroger_product_id", "preferred_brand", "preferred_size",
                         "last_known_price"} :
              WritesIngredient(field) => Calls("confirm_kroger_product") ]_vars

\* C24: resolve_kroger_product creates and changes no record but the EventLog
\* row it appends when the search returned; a product id or a price is written
\* onto an Ingredient by confirm_kroger_product only, a brand or a size by
\* confirm_kroger_product or update_ingredient only
C24_ResolveOnlyLogs ==
    [][ /\ Calls("resolve_kroger_product")
           => /\ WithoutEvents(SessionNext) = WithoutEvents(Session)
              /\ db'.events = db.events
              /\ mem'.events = IF "results" \in DOMAIN result'
                               THEN Append(mem.events, "resolve_kroger")
                               ELSE mem.events
        /\ \A field \in {"kroger_product_id", "last_known_price"} :
              WritesIngredient(field) => Calls("confirm_kroger_product")
        /\ \A field \in {"preferred_brand", "preferred_size"} :
              WritesIngredient(field)
              => Calls("confirm_kroger_product") \/ Calls("update_ingredient") ]_vars

\* a search has returned candidates for an ingredient that has a row, and has
\* logged its event
C24_Witness ==
    /\ last.tool = "resolve_kroger_product"
    /\ "results" \in DOMAIN result
    /\ result.results.results # <<>>
    /\ mem.events # <<>> /\ mem.events[Len(mem.events)] = "resolve_kroger"
    /\ \E i \in DOMAIN mem.ingredients :
          mem.ingredients[i].normalized_name
              = normalize_ingredient_name(result.ingredient_name)

-----------------------------------------------------------------------------
(* C25 *)

\* the notes without a recipe that carry the normalized name of `name`, in the
\* rows the calls so far amount to
Orphans(name) ==
    { n \in DOMAIN Rows.notes :
        /\ Rows.notes[n].recipe_id = NoneInt
        /\ normalize_recipe_name(Rows.notes[n].recipe_name) = normalize_recipe_name(name) }

-----------------------------------------------------------------------------
(* C26 *)

OrderedLists(store) == { l \in DOMAIN store.lists : store.lists[l].status = "ordered" }

\* C26: in the rows a flush of the transaction writes, every list with status
\* ordered has at least one item and an ordered-at timestamp
C26_NoEmptyArchive ==
    \A l \in OrderedLists(Rows) :
        /\ ItemsOf(Rows, l) # {}
        /\ Rows.lists[l].ordered_at # NoneStr

\* a list has been archived with its item, after an item was removed from it
C26_Witness ==
    /\ last.tool \in {"finalize_order", "add_to_kroger_cart"}
    /\ Succeeded(result)
    /\ "remove_item" \in Range(mem.events)
    /\ \E l \in OrderedLists(Rows) : ItemsOf(Rows, l) # {}

-----------------------------------------------------------------------------
(* C27 *)

\* the item rows of a list, by key
ItemRows(store, l) == [ i \in ItemsOf(store, l) |-> store.items[i] ]

\* C27: a list that is ordered stays ordered, and no step adds, removes or
\* changes an item of it
C27_ArchivedListsFrozen ==
    [][ \A l \in OrderedLists(Rows) :
          /\ l \in OrderedLists(RowsNext)
          /\ ItemRows(RowsNext, l) = ItemRows(Rows, l) ]_vars

\* an item has been added while an archived list with items exists
C27_Witness ==
    /\ last.tool = "add_item"
    /\ Succeeded(result)
    /\ \E l \in OrderedLists(Rows) : ItemsOf(Rows, l) # {}

-----------------------------------------------------------------------------
(* C28 *)

\* the retailer reported the cart submission of the call being made as done
SubmissionSucceeded ==
    /\ last'.kroger.configured /\ last'.kroger.authenticated
    /\ last'.kroger.response = "ok"

\* C28: add_to_kroger_cart marks a list ordered, or logs add_to_cart, only
\* when the submission succeeded; when the client is not configured, the user
\* not authenticated, the active list empty or the submission failed, the
\* list stays active, the items are unchanged and no event is logged
C28_CartArchivesOnlyOnSuccess ==
    [][ Calls("add_to_kroger_cart")
        => /\ (OrderedLists(RowsNext) # OrderedLists(Rows) \/ mem'.events # mem.events)
                 => SubmissionSucceeded
           /\ \A l \in ActiveLists(Rows) :
                 (~SubmissionSucceeded \/ ItemsOf(Rows, l) = {})
                 => /\ RowsNext.lists[l].status = "active"
                    /\ RowsNext.items = Rows.items
                    /\ mem'.events = mem.events ]_vars

\* the cart submission failed on a list with a resolved item, which stays
\* active
C28_Witness ==
    /\ last.tool = "add_to_kroger_cart"
    /\ last.kroger.response = "http_error"
    /\ Failed(result)
    /\ cart # <<>>
    /\ \E l \in ActiveLists(Rows) : ItemsOf(Rows, l) # {}

-----------------------------------------------------------------------------
(* C29 *)

\* the step is a call of a write tool whose handler returned an error result
HandlerError ==
    /\ last'.tool \in WriteTools
    /\ Failed(result')
    /\ "TOOL_ERROR" \notin DOMAIN result'

-----------------------------------------------------------------------------
(* C30 *)

\* the step is an authentication check or a request for the user token
Checks ==
    kroger_service'.op \in {"is_user_authenticated", "_get_user_token"}

\* a refresh token is held and the access token is missing or expired
NeedsRefresh(k) ==
    /\ k._user_refresh_token # NoneStr
    /\ k._user_token = NoneStr \/ k.time >= k._user_token_expiry

\* C30: while a refresh token is held, every authentication check or token
\* request made with a missing or expired access token posts a refresh to the
\* token endpoint, and when the endpoint answers with tokens the check
\* succeeds
C30_RefreshRetried ==
    [][ (Checks /\ NeedsRefresh(kroger_service))
        => /\ kroger_service'.attempted
           /\ kroger_service'._user_token # NoneStr => kroger_service'.answer ]_vars

\* a check has been made while a refresh token was held and the access token
\* was missing
C30_Witness ==
    /\ kroger_service.op \in {"is_user_authenticated", "_get_user_token"}
    /\ kroger_service._user_refresh_token # NoneStr
    /\ kroger_service._user_token = NoneStr
    /\ ~kroger_service.attempted

====
